---- MODULE Spec2Model ----
(***************************************************************************)
(* State machine of the exploration core of AVP-INSPECT (src/vrmonkey):    *)
(* the similarity functions and the state graph (state_graph.py), the      *)
(* state type (core_types.py), the exploration engine                      *)
(* (simple_state_explorer.py), the pointer controller                      *)
(* (mouse_controller.py) and the actuator connection (esp32_mouse.py).     *)
(*                                                                         *)
(* Texts are sequences of one-character strings.  A similarity score is an *)
(* integer numerator over the fixed denominator SimScale, so that every    *)
(* score the code can produce for texts of at most 15 characters is exact. *)
(***************************************************************************)
EXTENDS Integers, Sequences, FiniteSets, TLC

(***************************************************************************)
(* Bounds of the model.                                                    *)
(***************************************************************************)
\* longest text drawn from Alphabet as an input of text_similarity
MaxTextLen == 2

\* most elements in a generated element list (input of check_same_states)
MaxButtons == 3

(***************************************************************************)
(* Small helpers.                                                          *)
(***************************************************************************)
Min2(a, b) == IF a <= b THEN a ELSE b

Max2(a, b) == IF a >= b THEN a ELSE b

(***************************************************************************)
(* Python string operations used by text_similarity.                       *)
(***************************************************************************)
\* str.lower() on one character (the upper-case letters of Alphabet)
LowerChar(c) ==
  CASE c = "O" -> "o"
    [] c = "K" -> "k"
    [] c = "M" -> "m"
    [] OTHER -> c

\* str.lower()
Lower(s) == [k \in 1..Len(s) |-> LowerChar(s[k])]

IsSpace(c) == c = " "

RECURSIVE LStrip(_)
\* str.lstrip(): drop the leading whitespace
LStrip(s) ==
  IF s = <<>> THEN s
  ELSE IF IsSpace(Head(s)) THEN LStrip(Tail(s)) ELSE s

RECURSIVE RStrip(_)
\* str.rstrip(): drop the trailing whitespace
RStrip(s) ==
  IF s = <<>> THEN s
  ELSE IF IsSpace(s[Len(s)]) THEN RStrip(SubSeq(s, 1, Len(s) - 1)) ELSE s

\* str.strip()
Strip(s) == RStrip(LStrip(s))

RECURSIVE Replace(_, _, _)
\* str.replace(old, new): every non-overlapping occurrence, left to right
Replace(s, old, new) ==
  IF Len(s) < Len(old) THEN s
  ELSE IF SubSeq(s, 1, Len(old)) = old
       THEN new \o Replace(SubSeq(s, Len(old) + 1, Len(s)), old, new)
       ELSE <<Head(s)>> \o Replace(Tail(s), old, new)

(***************************************************************************)
(* StateGraph.levenshtein_distance: single-row dynamic programming.        *)
(***************************************************************************)
RECURSIVE LevCurrentRow(_, _, _, _, _)
\* the inner loop over the characters c2 of s2 (j is the 1-based index);
\* TLC evaluates arguments lazily, so each iteration computes its row (the
\* CASE states its length) before the next one starts
LevCurrentRow(c1, s2, previous_row, current_row, j) ==
  IF j > Len(s2) THEN current_row
  ELSE LET insertions == previous_row[j + 1] + 1
           deletions == current_row[j] + 1
           substitutions == previous_row[j] + (IF c1 # s2[j] THEN 1 ELSE 0)
           appended == Append(current_row,
                              Min2(Min2(insertions, deletions), substitutions))
       IN CASE Len(appended) = j + 1 ->
                 LevCurrentRow(c1, s2, previous_row, appended, j + 1)

RECURSIVE LevRows(_, _, _, _)
\* the outer loop over the characters c1 of s1 (i is the 1-based index)
LevRows(s1, s2, previous_row, i) ==
  IF i > Len(s1) THEN previous_row
  ELSE LET current_row == LevCurrentRow(s1[i], s2, previous_row, <<i>>, 1)
       IN CASE Len(current_row) = Len(s2) + 1 ->
                 LevRows(s1, s2, current_row, i + 1)

\* previous_row[-1]
LastOf(row) == row[Len(row)]

RECURSIVE levenshtein_distance(_, _)
levenshtein_distance(s1, s2) ==
  IF Len(s1) < Len(s2) THEN levenshtein_distance(s2, s1)
  ELSE IF Len(s2) = 0 THEN Len(s1)
  ELSE LastOf(LevRows(s1, s2, [k \in 1..(Len(s2) + 1) |-> k - 1], 1))

(***************************************************************************)
(* StateGraph.text_similarity.                                             *)
(***************************************************************************)
\* common denominator of the scores: 10 * lcm(1..15)
SimScale == 3603600

\* 1.0 - (distance / max_len) if max_len > 0 else 0.0, as a numerator over SimScale
SimOf(distance, max_len) ==
  IF max_len > 0 THEN SimScale - (distance * (SimScale \div max_len)) ELSE 0

\* ocr_confusions, in the insertion order of the dict
ocr_confusions ==
  << <<"0", "o">>, <<"1", "i">>, <<"2", "z">>, <<"5", "s">>, <<"8", "b">>,
     <<"9", "g">>, <<"l", "i">>, <<"i", "l">>, <<"o", "0">>, <<"z", "2">>,
     <<"s", "5">>, <<"b", "8">>, <<"g", "9">> >>

\* common_patterns: rn->m, cl->d, vv->w, nn->m, ii->n, il->n, li->n
common_patterns ==
  << <<<<"r","n">>, <<"m">> >>, <<<<"c","l">>, <<"d">> >>,
     <<<<"v","v">>, <<"w">> >>, <<<<"n","n">>, <<"m">> >>,
     <<<<"i","i">>, <<"n">> >>, <<<<"i","l">>, <<"n">> >>,
     <<<<"l","i">>, <<"n">> >> >>

\* semantic_groups (the values of the dict), each text as its characters
semantic_groups ==
  << {<<"b","a","c","k">>, <<"r","e","t","u","r","n">>, <<"p","r","e","v","i","o","u","s">>, <<"g","o"," ","b","a","c","k">>},
     {<<"n","e","x","t">>, <<"c","o","n","t","i","n","u","e">>, <<"p","r","o","c","e","e","d">>, <<"f","o","r","w","a","r","d">>},
     {<<"c","a","n","c","e","l">>, <<"c","l","o","s","e">>, <<"e","x","i","t">>, <<"q","u","i","t">>},
     {<<"o","k">>, <<"c","o","n","f","i","r","m">>, <<"a","c","c","e","p","t">>, <<"y","e","s">>},
     {<<"s","e","t","t","i","n","g","s">>, <<"o","p","t","i","o","n","s">>, <<"p","r","e","f","e","r","e","n","c","e","s">>,
      <<"c","o","n","f","i","g","u","r","a","t","i","o","n">>},
     {<<"h","e","l","p">>, <<"s","u","p","p","o","r","t">>, <<"a","s","s","i","s","t","a","n","c","e">>, <<"g","u","i","d","e">>} >>

\* best_sim = max(best_sim, alt_sim), when the replacement changed a string
BestWithAlternative(s1, s2, s1_alt, s2_alt, max_len, best_sim) ==
  IF s1_alt # s1 \/ s2_alt # s2
  THEN Max2(best_sim, SimOf(levenshtein_distance(s1_alt, s2_alt), max_len))
  ELSE best_sim

RECURSIVE BestOverReplacements(_, _, _, _, _, _)
\* one replacement loop of text_similarity: table is a sequence of
\* <<old, new>> pairs, each applied to both normalised strings
BestOverReplacements(s1, s2, max_len, table, k, best_sim) ==
  IF k > Len(table) THEN best_sim
  ELSE LET best == BestWithAlternative(s1, s2,
                                       Replace(s1, table[k][1], table[k][2]),
                                       Replace(s2, table[k][1], table[k][2]),
                                       max_len, best_sim)
       IN CASE best >= best_sim ->
                 BestOverReplacements(s1, s2, max_len, table, k + 1, best)

\* the OCR table with its single characters as one-character texts
OcrTable == [k \in 1..Len(ocr_confusions) |->
               << <<ocr_confusions[k][1]>>, <<ocr_confusions[k][2]>> >>]

\* best_sim after the OCR loop and the pattern loop, starting from the
\* Levenshtein similarity
BestSimilarity(s1, s2, max_len) ==
  BestOverReplacements(s1, s2, max_len, common_patterns, 1,
    BestOverReplacements(s1, s2, max_len, OcrTable, 1,
      SimOf(levenshtein_distance(s1, s2), max_len)))

\* semantic_sim: 1.0 when one group holds both strings
SemanticSimilarity(s1, s2) ==
  IF \E g \in DOMAIN semantic_groups : {s1, s2} \subseteq semantic_groups[g]
  THEN SimScale ELSE 0

\* if semantic_sim > 0.8: 0.7 * semantic_sim + 0.3 * best_sim, else best_sim
FinalSimilarity(semantic_sim, best_sim) ==
  IF semantic_sim * 10 > 8 * SimScale
  THEN (7 * semantic_sim + 3 * best_sim) \div 10
  ELSE best_sim

\* the same with max_len = len(s1) in place of max(len(s1), len(s2))
SimilarityOfNormalisedByFirst(s1, s2) ==
  FinalSimilarity(SemanticSimilarity(s1, s2), BestSimilarity(s1, s2, Len(s1)))

\* the part of text_similarity after the normalisation and the exact match
SimilarityOfNormalised(s1, s2) ==
  FinalSimilarity(SemanticSimilarity(s1, s2),
                  BestSimilarity(s1, s2, Max2(Len(s1), Len(s2))))

text_similarity(a, b) ==
  IF a = <<>> \/ b = <<>> THEN 0
  ELSE LET s1 == Strip(Lower(a))
           s2 == Strip(Lower(b))
       IN IF s1 = s2 THEN SimScale ELSE SimilarityOfNormalised(s1, s2)

(***************************************************************************)
(* core_types.State and StateGraph.check_same_states.                      *)
(*                                                                         *)
(* A Button is [id, content, bbox]: id is the position of the element in   *)
(* the detector's output (str(len(buttons)) in check_current_state),       *)
(* content its display text and bbox <<x_min, y_min, x_max, y_max>> in     *)
(* tenths of the screen.  interactivity is True for every Button the       *)
(* engine builds and source is never read by the core, so both are left    *)
(* out.                                                                    *)
(***************************************************************************)
\* State._generate_state_id: json.dumps of the (content, bbox) list, which is
\* one-to-one on such lists; the list itself stands for the string
_generate_state_id(buttons) ==
  [k \in 1..Len(buttons) |-> <<buttons[k].content, buttons[k].bbox>>]

\* max(similarity(c1, c2) for c2 in contents2), starting from 0
RECURSIVE MaxSimilarity(_, _, _, _)
MaxSimilarity(c1, contents2, k, max_similarity) ==
  IF k > Len(contents2) THEN max_similarity
  ELSE MaxSimilarity(c1, contents2, k + 1,
                     Max2(max_similarity, text_similarity(c1, contents2[k])))

\* sum(similarity_scores)
RECURSIVE SumScores(_, _, _)
SumScores(contents1, contents2, k) ==
  IF k > Len(contents1) THEN 0
  ELSE MaxSimilarity(contents1[k], contents2, 1, 0)
       + SumScores(contents1, contents2, k + 1)

\* tolerance = 0.7 (the default; no caller passes another)
ToleranceTenths == 7

\* the count cut-off: size_ratio < 0.7
SizeRatioTenths == 7

\* check_same_states without the cut on the element counts
check_same_states_no_cut(buttons1, buttons2) ==
  IF Len(buttons1) = 0 /\ Len(buttons2) = 0 THEN TRUE
  ELSE IF Len(buttons1) = 0 \/ Len(buttons2) = 0 THEN FALSE
  ELSE 10 * SumScores([k \in 1..Len(buttons1) |-> buttons1[k].content],
                      [k \in 1..Len(buttons2) |-> buttons2[k].content], 1)
         >= ToleranceTenths * Len(buttons1) * SimScale

check_same_states(buttons1, buttons2) ==
  IF Len(buttons1) = 0 /\ Len(buttons2) = 0 THEN TRUE
  ELSE IF Len(buttons1) = 0 \/ Len(buttons2) = 0 THEN FALSE
  ELSE LET contents1 == [k \in 1..Len(buttons1) |-> buttons1[k].content]
           contents2 == [k \in 1..Len(buttons2) |-> buttons2[k].content]
           lo == Min2(Len(contents1), Len(contents2))
           hi == Max2(Len(contents1), Len(contents2))
       IN IF 10 * lo < SizeRatioTenths * hi THEN FALSE
          ELSE 10 * SumScores(contents1, contents2, 1)
                 >= ToleranceTenths * Len(contents1) * SimScale

(***************************************************************************)
(* core_types.State.__init__: the unexplored queue is the element list     *)
(* sorted by ascending distance between the element's centre and the       *)
(* screen centre (sorted() is stable).  Distances are compared by their    *)
(* squares; bbox is in tenths of the screen, so the centre of an element   *)
(* is at (x_min + x_max) / 20 of the width.                                *)
(***************************************************************************)
\* ScreenConfig.width
ScreenWidth == 3024

\* ScreenConfig.height
ScreenHeight == 1964

\* 25 times the square of distance_to_center(button): both dimensions are
\* multiples of 4, and the quarter keeps the squares within 32 bits
DistanceToCenterSq(b) ==
  LET dx == (ScreenWidth \div 4) * ((b.bbox[1] + b.bbox[3]) - 10)
      dy == (ScreenHeight \div 4) * ((b.bbox[2] + b.bbox[4]) - 10)
  IN dx * dx + dy * dy

RECURSIVE InsertSorted(_, _)
\* insert b after every element that is not farther than b (stable)
InsertSorted(sorted, b) ==
  IF sorted = <<>> THEN <<b>>
  ELSE IF DistanceToCenterSq(Head(sorted)) <= DistanceToCenterSq(b)
       THEN <<Head(sorted)>> \o InsertSorted(Tail(sorted), b)
       ELSE <<b>> \o sorted

RECURSIVE SortedByDistance(_, _)
\* sorted(buttons.copy(), key=distance_to_center), built left to right
SortedByDistance(buttons, k) ==
  IF k = 0 THEN <<>>
  ELSE InsertSorted(SortedByDistance(buttons, k - 1), buttons[k])

\* a State whose queue keeps the order in which the detector listed the
\* elements
StateInDetectorOrder(buttons) ==
  [buttons |-> buttons,
   unexplored_buttons |-> buttons,
   state_id |-> _generate_state_id(buttons)]

\* State(buttons): the object the constructor returns
State(buttons) ==
  [buttons |-> buttons,
   unexplored_buttons |-> SortedByDistance(buttons, Len(buttons)),
   state_id |-> _generate_state_id(buttons)]

(***************************************************************************)
(* The frames the element detector can return.  The application and the    *)
(* detector are outside the core, so every classification may observe any  *)
(* of these frames.  Button ids are positions in the detector's output.    *)
(***************************************************************************)
Btn(id, content, bbox) == [id |-> id, content |-> content, bbox |-> bbox]

\* home screen: two launcher entries
FrameHome == << Btn(0, <<"m">>, <<1, 1, 3, 3>>), Btn(1, <<"k">>, <<6, 6, 8, 8>>) >>

\* a frame without interactive elements
FrameEmpty == << >>

\* first application screen
FrameA == << Btn(0, <<"o","k">>, <<4, 4, 6, 6>>), Btn(1, <<"n","o">>, <<0, 0, 2, 2>>) >>

\* a screen of icons: the detector reports no display text for them
FrameIcons == << Btn(0, <<>>, <<2, 2, 4, 4>>), Btn(1, <<>>, <<4, 4, 6, 6>>) >>

Frames == << FrameHome, FrameEmpty, FrameA, FrameIcons >>

\* what the detector can return before the application is open: the home
\* screen with its menu visible or hidden
HomeFrames == {1, 2}

NFrames == Len(Frames)

\* what the detector can return once the application has been launched
AppFrames == 1..NFrames

\* State(buttons) of every frame, computed once
FrameState == [f \in 1..NFrames |-> State(Frames[f])]

\* check_same_states(State(Frames[f]), State(Frames[g])), computed once
SameFrame == [f \in 1..NFrames |->
               [g \in 1..NFrames |-> check_same_states(Frames[f], Frames[g])]]

(***************************************************************************)
(* A State object is [frame, unexplored_buttons]: buttons and state_id      *)
(* never change after construction and are read from FrameState[frame];   *)
(* unexplored_buttons is the queue of the ids of the                       *)
(* elements not yet popped.  graph.nodes is the sequence of these objects  *)
(* and a reference to a State object is its index in nodes: every State    *)
(* the engine holds was returned by check_current_state, which returns an  *)
(* existing node or appends the new one.  0 stands for None.               *)
(***************************************************************************)
NoneState == 0

NoneButton == 0 - 1

\* timeout_depth before the budget has been seen exhausted
NotSeen == 0 - 1

\* timeout_depth when run() saw it, before explore_all_states was called
SeenInRun == 0 - 2

\* the State object built by check_current_state from frame f
NewStateObject(f) ==
  [frame |-> f,
   unexplored_buttons |->
     [k \in 1..Len(Frames[f]) |-> FrameState[f].unexplored_buttons[k].id]]

buttons_of(st) == Frames[st.frame]

state_id_of(st) == FrameState[st.frame].state_id

\* State.has_unexplored_buttons
has_unexplored_buttons(st) == Len(st.unexplored_buttons) > 0

(***************************************************************************)
(* Program constants (config.py).                                          *)
(***************************************************************************)
\* the value of ExplorationConfig.max_clicks_without_new_state in the runs
\* checked: the frames hold few elements, so the streak is kept short
MaxClicksWithoutNewState == 3

\* config.exploration.max_clicks_without_new_state
max_clicks_without_new_state == MaxClicksWithoutNewState

\* ExplorationConfig.max_no_movement_attempts
max_no_movement_attempts == 5

\* ExplorationConfig.enable_home_detection
enable_home_detection == TRUE

\* most nodes the graph holds in a run: the budget runs out before more
\* states are discovered
MaxNodes == 3

\* most pointer moves of a run that end without convergence
MaxMoveFailures == 1

VARIABLES
  \* StateGraph
  nodes,                    \* graph.nodes: sequence of State objects
  edges,                    \* graph.edges: (from id, to id) -> edge
  dead_buttons,             \* graph.dead_buttons: set of (state id, button id)
  home_state,               \* graph.home_state: reference to a State or None
  \* StateExplorer
  current_state,            \* reference to the last classified State or None
  clicks_since_new_state,
  last_trigger_button,      \* <<>> for None, else <<State reference, button id>>
  stack,                    \* the explore_state frames, outermost first: the
                            \* State reference each frame was called with
  button,                   \* the element popped in the running frame
  pc,                       \* position of the engine thread
  restart_reason,           \* which call site requested the pending restart
  \* MouseController, as the engine sees it
  consecutive_no_movement,
  \* MetricsData.is_timeout_reached(): the wall-clock budget is exhausted
  timed_out,
  \* observations of the run
  finalized,                \* number of _finalize_exploration calls
  final_report,             \* the "Completed" line of final_report.txt
  restarted,                \* app_manager.restart_app() has been called
  skipped,                  \* the last (state id, button id) skipped as dead
  move_failures,            \* pointer moves that did not converge so far
  move_result,              \* what the last move_to_target call returned
  launch_error,             \* the exception explore_all_states raised and caught
  run_result,               \* what StateExplorerApp.run returned
  timeout_depth,            \* number of frames on the stack when the engine
                            \* first saw the budget exhausted
  \* a direct call of a function of the similarity engine or the graph
  fn_pc,                    \* which function is called, and whether it returned
  fn_in,                    \* its arguments
  fn_out,                   \* what it returned
  \* ESP32Mouse and the threads calling send_command_with_timeout
  connection,               \* self.connection: "open", or "none" for None
  idle_expired,             \* time.time() - last_command_time > command_timeout
  command_lock,             \* the thread holding command_lock, or NoThread
  cmd_pc,                   \* per thread: position in send_command_with_timeout
  cmd_depth,                \* per thread: active send_command_with_timeout frames
  cmd_sent,                 \* per thread: connection.write calls of the current call
  cmd_ret,                  \* per thread: what the last call returned
  \* one caller of MouseController.move_to_target
  mv_pc,                    \* position in move_to_target
  mv_frame,                 \* the last frame observed: pointer found, prompt shown
  mv_result,                \* the PointerMoveResult returned, by kind
  mv_commanded,             \* the last step issued a move command
  attempts,
  lost_pointer_count,
  \* the locals of one move_to_target call against a simulated actuator
  ctl,
  \* the gain estimate of MouseController
  mouse_ratio,              \* (x, y) in units of 1/RatioScale
  ratio_history,            \* sequence of (effective_ratio_x, effective_ratio_y)
  ratio_op,                 \* the last operation on the estimate
  \* the recording service (video_recorder_service.py) and its request handlers
  recording_thread,         \* the Thread object, by number, or NoRecording for None
  recording_active,
  current_app_name,         \* "None" for None
  current_video_path,       \* the recording whose path it holds, or NoRecording
  recording_stop_event,     \* the Event object, by number, or NoRecording
  rec_threads,              \* per Thread object: how far record_stream has run
  stop_events,              \* per Event object: is_set()
  handlers                  \* per request handler: position, locals, last response

graphVars == <<nodes, edges, dead_buttons, home_state>>

explorerVars == <<current_state, clicks_since_new_state, last_trigger_button,
                  stack, button, pc, restart_reason, timed_out,
                  finalized, final_report,
                  restarted, skipped, move_failures, move_result,
                  launch_error, run_result, timeout_depth>>

engineVars == <<explorerVars, consecutive_no_movement>>

fnVars == <<fn_pc, fn_in, fn_out>>

cmdVars == <<connection, idle_expired, command_lock, cmd_pc, cmd_depth,
             cmd_sent, cmd_ret>>

moveVars == <<mv_pc, mv_frame, mv_result, mv_commanded, attempts,
              lost_pointer_count>>

ctlVars == <<ctl>>

ratioVars == <<mouse_ratio, ratio_history, ratio_op>>

recVars == <<recording_thread, recording_active, current_app_name,
             current_video_path, recording_stop_event, rec_threads,
             stop_events, handlers>>

vars == <<graphVars, engineVars, fnVars, cmdVars, moveVars, ctlVars, ratioVars, recVars>>

\* what no step of the engine changes
outsideEngine == <<fnVars, cmdVars, moveVars, ctlVars, ratioVars, recVars>>

(***************************************************************************)
(* StateGraph operations (state_graph.py).                                 *)
(***************************************************************************)
\* has_state: any(check_same_states(state, existing) for existing in nodes)
has_state(ns, st) ==
  \E i \in 1..Len(ns) : SameFrame[st.frame][ns[i].frame]

RECURSIVE FirstSimilar(_, _, _)
\* the loop of find_similar_state from node i on
FirstSimilar(ns, st, i) ==
  IF i > Len(ns) THEN NoneState
  ELSE IF SameFrame[st.frame][ns[i].frame] THEN i
  ELSE FirstSimilar(ns, st, i + 1)

\* find_similar_state: the first node equal to the state, or None
find_similar_state(ns, st) == FirstSimilar(ns, st, 1)

\* add_state: the node list after the call; the call returns True exactly
\* when the list grew
add_state(ns, st) == IF has_state(ns, st) THEN ns ELSE Append(ns, st)

\* an add_edge that builds a new StateGraphEdge on every call
add_edge_anew(es, from_id, to_id, btn) ==
  [k \in (DOMAIN es) \cup {<<from_id, to_id>>} |->
     IF k = <<from_id, to_id>> THEN [button |-> btn, traversal_count |-> 1]
     ELSE es[k]]

\* add_edge: create the edge with one traversal, or count one more
add_edge(es, from_id, to_id, btn) ==
  LET edge_key == <<from_id, to_id>>
  IN IF edge_key \in DOMAIN es
     THEN [es EXCEPT ![edge_key].traversal_count = @ + 1]
     ELSE [k \in (DOMAIN es) \cup {edge_key} |->
             IF k = edge_key THEN [button |-> btn, traversal_count |-> 1]
             ELSE es[k]]

\* an add_dead_button that keeps only the pair it is given
add_dead_button_alone(dead, state_id, button_id) == {<<state_id, button_id>>}

\* add_dead_button
add_dead_button(dead, state_id, button_id) == dead \cup {<<state_id, button_id>>}

\* is_dead_button
is_dead_button(dead, state_id, button_id) == <<state_id, button_id>> \in dead

\* is_home_state(state): check_same_states(state, home_state)
is_home_state(ns, home, st) ==
  IF home = NoneState THEN FALSE
  ELSE SameFrame[st.frame][ns[home].frame]

\* get_unexplored_states: the nodes holding an unexplored button that is not dead
get_unexplored_states(ns, dead) ==
  {i \in 1..Len(ns) :
     \E k \in 1..Len(ns[i].unexplored_buttons) :
       ~is_dead_button(dead, state_id_of(ns[i]), ns[i].unexplored_buttons[k])}

\* get_stats: total_states and total_edges
get_stats(ns, es) ==
  [total_states |-> Len(ns), total_edges |-> Cardinality(DOMAIN es)]

(***************************************************************************)
(* StateExplorer (simple_state_explorer.py).                               *)
(***************************************************************************)
\* _find_button_by_id(state, button_id): the button of that state carrying
\* the id, or NoneButton
_find_button_by_id(st, button_id) ==
  IF \E k \in 1..Len(buttons_of(st)) : buttons_of(st)[k].id = button_id
  THEN button_id
  ELSE NoneButton

\* check_current_state once find_similar_state has answered: target is the
\* State the call returns, nodes_after the node list it leaves
CheckResult(similar_state, target, nodes_after, clicked_button_id) ==
  [is_known |-> similar_state # NoneState,
   state |-> target,
   nodes |-> nodes_after,
   edges |->
     IF /\ current_state # NoneState
        /\ clicked_button_id # NoneButton
        /\ _find_button_by_id(nodes[current_state], clicked_button_id) # NoneButton
        /\ (similar_state # NoneState => current_state # similar_state)
     THEN add_edge(edges, state_id_of(nodes[current_state]),
                   state_id_of(nodes_after[target]),
                   buttons_of(nodes[current_state])[clicked_button_id + 1])
     ELSE edges]

\* the two branches of check_current_state: a known state is returned as
\* it is, a new one is added to the graph
CheckAgainst(similar_state, new_state, clicked_button_id) ==
  IF similar_state # NoneState
  THEN CheckResult(similar_state, similar_state, nodes, clicked_button_id)
  ELSE CheckResult(similar_state, Len(nodes) + 1, add_state(nodes, new_state),
                   clicked_button_id)

\* check_current_state past the budget check, for detector output Frames[f]:
\* the graph and current_state after the call, and the pair it returns
CheckCurrentState(f, clicked_button_id) ==
  CheckAgainst(find_similar_state(nodes, NewStateObject(f)), NewStateObject(f),
               clicked_button_id)

\* the comparison with > in place of >=
CeilingReachedLate(clicks, ceiling) == clicks > ceiling

\* clicks_since_new_state >= max_clicks_without_new_state
CeilingReached(clicks, ceiling) == clicks >= ceiling

\* the State the running explore_state frame was called with
FrameStateRef == stack[Len(stack)]

\* return from the running explore_state frame: the caller resumes at the
\* top of its loop; the outermost frame returns into explore_all_states,
\* whose finally clause finalizes
ReturnFromFrame ==
  /\ stack' = SubSeq(stack, 1, Len(stack) - 1)
  /\ pc' = IF Len(stack) > 1 THEN "select" ELSE "finalize"
  /\ button' = NoneButton

\* the engine sees the budget exhausted (is_timeout_reached() returned True)
SeeTimeout ==
  timeout_depth' = IF timeout_depth = NotSeen THEN Len(stack) ELSE timeout_depth

\* the wall clock passes the end of the budget
Tick ==
  /\ ~timed_out
  /\ pc \notin {"done", "aborted", "hung"}
  /\ timed_out' = TRUE
  /\ UNCHANGED <<outsideEngine, graphVars, current_state, clicks_since_new_state,
                 last_trigger_button, stack, button, pc, restart_reason,
                 consecutive_no_movement,
                 finalized, final_report, restarted, skipped,
                 move_failures, move_result,
                 launch_error, run_result, timeout_depth>>

\* StateExplorerApp.run: capture the home screen before the app opens
\* (again = TRUE is the second capture, after an empty first one)
CaptureHomeAt(again) ==
  /\ pc = IF again THEN "home_again" ELSE "home"
  /\ \/ \* TimeoutError leaves run() before explore_all_states is called
        /\ timed_out
        /\ pc' = "aborted"
        /\ timeout_depth' = SeenInRun
        /\ run_result' = "True"
        /\ UNCHANGED <<graphVars, current_state>>
     \/ \* the detector call fails: check_current_state returns (False, None)
        /\ ~timed_out
        /\ pc' = "open"
        /\ UNCHANGED <<graphVars, current_state, timeout_depth, run_result>>
     \/ /\ ~timed_out
        /\ UNCHANGED <<timeout_depth, run_result>>
        /\ \E f \in HomeFrames :
             \E r \in {CheckCurrentState(f, NoneButton)} :
                /\ Len(r.nodes) <= MaxNodes
                /\ nodes' = r.nodes
                /\ edges' = r.edges
                /\ current_state' = r.state
                /\ IF ~again /\ Len(buttons_of(r.nodes[r.state])) = 0
                   THEN pc' = "home_again" /\ UNCHANGED home_state
                   ELSE pc' = "open" /\ home_state' = r.state
        /\ UNCHANGED dead_buttons
  /\ UNCHANGED <<outsideEngine, clicks_since_new_state, last_trigger_button,
                 stack, button, restart_reason, consecutive_no_movement,
                 timed_out,
                 finalized, final_report, restarted, skipped, move_failures,
                 move_result, launch_error>>

CaptureHome == CaptureHomeAt(FALSE)

CaptureHomeAgain == CaptureHomeAt(TRUE)

\* StateExplorerApp.run: open_app and calibration succeed, or run() raises
\* and its except clause returns False
OpenApp ==
  /\ pc = "open"
  /\ \E ok \in BOOLEAN :
       /\ pc' = IF ok THEN "start" ELSE "aborted"
       /\ run_result' = IF ok THEN run_result ELSE "False"
  /\ UNCHANGED <<outsideEngine, graphVars, current_state, clicks_since_new_state,
                 last_trigger_button, stack, button, restart_reason,
                 consecutive_no_movement, timed_out,
                 finalized, final_report, restarted,
                 skipped, move_failures, move_result,
                 launch_error, timeout_depth>>

\* explore_all_states up to the call of explore_state
ExploreAllStates ==
  /\ pc = "start"
  /\ \/ \* TimeoutError raised by check_current_state: to the finally clause
        /\ timed_out
        /\ SeeTimeout
        /\ pc' = "finalize"
        /\ stack' = <<>>
        /\ UNCHANGED <<graphVars, current_state, launch_error>>
     \/ \* "Could not capture initial app state": to the finally clause
        /\ ~timed_out
        /\ pc' = "finalize"
        /\ stack' = <<>>
        /\ UNCHANGED <<graphVars, current_state, timeout_depth, launch_error>>
     \/ /\ ~timed_out
        /\ \E f \in AppFrames :
             \E r \in {CheckCurrentState(f, NoneButton)} :
                /\ Len(r.nodes) <= MaxNodes
                /\ nodes' = r.nodes
                /\ edges' = r.edges
                /\ current_state' = r.state
                /\ IF is_home_state(r.nodes, home_state, r.nodes[r.state])
                   THEN \* "App failed to open": the exception is caught
                        /\ pc' = "finalize"
                        /\ stack' = <<>>
                        /\ launch_error' = "App failed to open"
                   ELSE /\ pc' = "select"
                        /\ stack' = <<r.state>>
                        /\ UNCHANGED launch_error
        /\ UNCHANGED <<dead_buttons, home_state, timeout_depth>>
  /\ UNCHANGED <<outsideEngine, clicks_since_new_state, last_trigger_button,
                 button, restart_reason, consecutive_no_movement, timed_out,
                 finalized, final_report, restarted, skipped, move_failures,
                 move_result, run_result>>

\* explore_state without the test of the dead set
IsDeadNeverChecked(dead, state_id, button_id) == FALSE

\* is_dead_button as explore_state consults it before a click
IsDeadBeforeClick(dead, state_id, button_id) ==
  is_dead_button(dead, state_id, button_id)

\* the check of the budget at the top of the loop of explore_state
TimeoutAtLoopTop == timed_out

\* a get_next_unexplored_button that leaves the element in the queue
PopNothing(unexplored_buttons) == unexplored_buttons

\* State.get_next_unexplored_button: the queue after pop(0)
PopFirst(unexplored_buttons) == Tail(unexplored_buttons)

\* explore_state, top of the while loop up to the call of _click_button
SelectElement ==
  /\ pc = "select"
  /\ LET st == nodes[FrameStateRef]
         sid == state_id_of(st)
     IN IF ~has_unexplored_buttons(st)
        THEN \* the loop ends
             /\ ReturnFromFrame
             /\ UNCHANGED <<nodes, skipped, timeout_depth>>
        ELSE IF TimeoutAtLoopTop
        THEN \* "Timeout reached during state exploration"
             /\ SeeTimeout
             /\ ReturnFromFrame
             /\ UNCHANGED <<nodes, skipped>>
        ELSE \* get_next_unexplored_button pops the head of the queue
             LET b == Head(st.unexplored_buttons)
             IN /\ nodes' = [nodes EXCEPT ![FrameStateRef].unexplored_buttons =
                                          PopFirst(@)]
                /\ stack' = stack
                /\ timeout_depth' = timeout_depth
                /\ IF IsDeadBeforeClick(dead_buttons, sid, b)
                   THEN /\ pc' = "select"
                        /\ button' = NoneButton
                        /\ skipped' = <<sid, b>>
                   ELSE /\ pc' = "click"
                        /\ button' = b
                        /\ skipped' = skipped
  /\ UNCHANGED <<outsideEngine, edges, dead_buttons, home_state, current_state,
                 clicks_since_new_state, last_trigger_button, restart_reason,
                 consecutive_no_movement, timed_out,
                 finalized, final_report, restarted,
                 move_failures,
                 move_result,
                 launch_error, run_result>>

\* what move_to_target can report to _click_button, with the value it leaves
\* in consecutive_no_movement: the stuck abort returns when the count
\* reaches max_no_movement_attempts; every other return leaves it below.
\* The engine only compares the count with that ceiling, so 0 and the
\* largest value below the ceiling stand for the values in between.
MoveOutcomes ==
  {[result |-> r, no_movement |-> n] :
     r \in {"success", "failed", "password"},
     n \in {0, max_no_movement_attempts - 1}}
  \cup {[result |-> "stuck", no_movement |-> max_no_movement_attempts]}

\* a ceiling test that is one observation late
PointerStuckLate(no_movement_count) ==
  no_movement_count > max_no_movement_attempts

\* explore_state line 236: the failed move ended on the stuck abort
PointerStuck(no_movement_count) ==
  no_movement_count >= max_no_movement_attempts

\* explore_state lines 231-245: the element could not be clicked
AfterFailedClick(dead, no_movement_count) ==
  /\ dead_buttons' = IF PointerStuck(no_movement_count)
                     THEN add_dead_button(dead,
                            state_id_of(nodes[FrameStateRef]), button)
                     ELSE dead
  /\ consecutive_no_movement' = IF PointerStuck(no_movement_count)
                                THEN 0 ELSE no_movement_count
  /\ pc' = "select"
  /\ button' = NoneButton

\* _click_button and, when it fails, the handling in explore_state
ClickButton ==
  /\ pc = "click"
  /\ \/ \* an actuator command of the move or the click never returns
        /\ pc' = "hung"
        /\ UNCHANGED <<dead_buttons, consecutive_no_movement, button,
                       restart_reason, move_failures, move_result>>
     \/ \E out \in MoveOutcomes :
          /\ move_result' = out.result
          /\ CASE out.result = "success" ->
                 \* esp32.click_mouse(1) is issued; reclassification follows
                 /\ pc' = "reclassify"
                 /\ consecutive_no_movement' = out.no_movement
                 /\ UNCHANGED <<dead_buttons, button, restart_reason,
                                move_failures>>
            [] out.result = "password" ->
                 /\ move_failures < MaxMoveFailures
                 /\ move_failures' = move_failures + 1
                 /\ dead_buttons' = add_dead_button(dead_buttons,
                                      state_id_of(nodes[current_state]), button)
                 /\ consecutive_no_movement' = out.no_movement
                 /\ pc' = "restart"
                 /\ restart_reason' = "password"
                 /\ UNCHANGED button
            [] OTHER ->
                 /\ move_failures < MaxMoveFailures
                 /\ move_failures' = move_failures + 1
                 /\ AfterFailedClick(dead_buttons, out.no_movement)
                 /\ UNCHANGED restart_reason
  /\ UNCHANGED <<outsideEngine, nodes, edges, home_state, current_state,
                 clicks_since_new_state, last_trigger_button, stack, timed_out,
                 finalized, final_report, restarted, skipped, launch_error,
                 run_result, timeout_depth>>

\* explore_state lines 248-295: check_current_state(button.id) and the
\* reaction to its result
Reclassify ==
  /\ pc = "reclassify"
  /\ \/ \* TimeoutError raised by check_current_state: the frame returns
        /\ timed_out
        /\ SeeTimeout
        /\ ReturnFromFrame
        /\ UNCHANGED <<graphVars, current_state, clicks_since_new_state,
                       last_trigger_button, restart_reason>>
     \/ \* the detector call fails: new_state is None, continue
        /\ ~timed_out
        /\ pc' = "select"
        /\ button' = NoneButton
        /\ UNCHANGED <<graphVars, current_state, clicks_since_new_state,
                       last_trigger_button, restart_reason, stack, timeout_depth>>
     \/ /\ ~timed_out
        /\ UNCHANGED timeout_depth
        /\ \E f \in AppFrames :
             \E r \in {CheckCurrentState(f, button)} :
                /\ Len(r.nodes) <= MaxNodes
                /\ nodes' = r.nodes
                /\ edges' = r.edges
                /\ current_state' = r.state
                /\ UNCHANGED home_state
                /\ IF r.is_known
                   THEN /\ clicks_since_new_state' = clicks_since_new_state + 1
                        /\ IF enable_home_detection
                              /\ is_home_state(nodes, home_state, nodes[r.state])
                           THEN \* _handle_home_return up to the restart call
                                /\ dead_buttons' =
                                     IF last_trigger_button # <<>>
                                     THEN add_dead_button(dead_buttons,
                                            state_id_of(nodes[last_trigger_button[1]]),
                                            last_trigger_button[2])
                                     ELSE dead_buttons
                                /\ pc' = "restart"
                                /\ restart_reason' = "home"
                                /\ UNCHANGED <<stack, button>>
                           ELSE IF CeilingReached(clicks_since_new_state + 1,
                                                  max_clicks_without_new_state)
                           THEN /\ pc' = "restart"
                                /\ restart_reason' = "ceiling"
                                /\ UNCHANGED <<dead_buttons, stack, button>>
                           ELSE /\ pc' = "select"
                                /\ button' = NoneButton
                                /\ UNCHANGED <<dead_buttons, stack, restart_reason>>
                        /\ UNCHANGED last_trigger_button
                   ELSE \* a new state: recurse into it
                        /\ clicks_since_new_state' = 0
                        /\ last_trigger_button' = <<FrameStateRef, button>>
                        /\ stack' = Append(stack, r.state)
                        /\ pc' = "select"
                        /\ button' = NoneButton
                        /\ UNCHANGED <<dead_buttons, restart_reason>>
  /\ UNCHANGED <<outsideEngine, consecutive_no_movement, timed_out,
                 finalized, final_report,
                 restarted, skipped, move_failures,
                 move_result,
                 launch_error, run_result>>

\* _restart_app_and_resume: the dead set once the last trigger is marked
DeadAfterTrigger ==
  IF last_trigger_button # <<>>
  THEN add_dead_button(dead_buttons,
         state_id_of(nodes[last_trigger_button[1]]),
         last_trigger_button[2])
  ELSE dead_buttons

\* _restart_app_and_resume goes on to restart_app unless "not
\* unexplored_states", with the mutation that drops the early return
RestartUnconditional(unexplored_states) == TRUE
RestartWanted(unexplored_states) == unexplored_states # {}

\* _restart_app_and_resume, and the rest of the handler that called it
RestartAppAndResume ==
  /\ pc = "restart"
  /\ LET dead_after == DeadAfterTrigger
         unexplored_states == get_unexplored_states(nodes, dead_after)
         resumed == RestartWanted(unexplored_states)
         \* the fields after _restart_app_and_resume has returned
         clicks_after == IF resumed THEN 0 ELSE clicks_since_new_state
         no_movement_after == IF resumed THEN 0 ELSE consecutive_no_movement
     IN /\ restarted' = (restarted \/ resumed)
        /\ \/ \* app_manager.restart_app() returns either value
              /\ last_trigger_button' = IF resumed THEN <<>> ELSE last_trigger_button
              /\ CASE restart_reason = "ceiling" ->
                        /\ clicks_since_new_state' = clicks_after
                        /\ consecutive_no_movement' = no_movement_after
                        /\ dead_buttons' = dead_after
                        /\ ReturnFromFrame
                   [] restart_reason = "home" ->
                        \* _handle_home_return resets the counter and returns True
                        /\ clicks_since_new_state' = 0
                        /\ consecutive_no_movement' = no_movement_after
                        /\ dead_buttons' = dead_after
                        /\ ReturnFromFrame
                   [] restart_reason = "password" ->
                        \* _click_button returns False
                        /\ clicks_since_new_state' = clicks_after
                        /\ AfterFailedClick(dead_after, no_movement_after)
                        /\ stack' = stack
           \/ \* an actuator command of restart_app never returns
              /\ resumed
              /\ pc' = "hung"
              /\ dead_buttons' = dead_after
              /\ UNCHANGED <<clicks_since_new_state, consecutive_no_movement,
                             stack, button, last_trigger_button>>
  /\ restart_reason' = "none"
  /\ UNCHANGED <<outsideEngine, nodes, edges, home_state, current_state,
                 timed_out,
                 finalized, final_report, skipped, move_failures, move_result,
                 launch_error, run_result, timeout_depth>>

\* MetricsManager.finalize: the "Completed" line of the final report, with
\* the mutation that negates the test
CompletedUnlessTimeout(is_timeout_reached) ==
  IF ~is_timeout_reached THEN "Yes" ELSE "No"
Completed(is_timeout_reached) ==
  IF is_timeout_reached THEN "Yes" ELSE "No"

\* _finalize_exploration: final statistics, the snapshot export, and the
\* final report of the metrics manager
FinalizeExploration ==
  /\ pc = "finalize"
  /\ finalized' = finalized + 1
  /\ final_report' = Completed(timed_out)
  /\ pc' = "done"
  \* explore_all_states returns and run() returns True
  /\ run_result' = "True"
  /\ UNCHANGED <<outsideEngine, graphVars, current_state, clicks_since_new_state,
                 last_trigger_button, stack, button, restart_reason,
                 consecutive_no_movement, timed_out, restarted, skipped,
                 move_failures, move_result,
                 launch_error, timeout_depth>>

\* the engine after construction, before run() captures the home screen
EngineInit ==
  /\ nodes = <<>>
  /\ edges = <<>>
  /\ dead_buttons = {}
  /\ home_state = NoneState
  /\ current_state = NoneState
  /\ clicks_since_new_state = 0
  /\ last_trigger_button = <<>>
  /\ stack = <<>>
  /\ button = NoneButton
  /\ pc = "home"
  /\ restart_reason = "none"
  /\ consecutive_no_movement = 0
  /\ timed_out = FALSE
  /\ finalized = 0
  /\ final_report = "none"
  /\ restarted = FALSE
  /\ skipped = <<>>
  /\ move_failures = 0
  /\ move_result = "none"
  /\ launch_error = "none"
  /\ run_result = "none"
  /\ timeout_depth = NotSeen


(***************************************************************************)
(* ESP32Mouse.send_command_with_timeout (esp32_mouse.py).                  *)
(*                                                                         *)
(* command_lock is a threading.Lock: it is not reentrant, so acquiring it  *)
(* blocks while any thread holds it, the acquiring thread included.  The   *)
(* clock is kept as one bit, idle_expired: more than command_timeout       *)
(* seconds have passed since last_command_time.  last_command_time starts  *)
(* at 0 and time.time() counts from the epoch, so the bit starts TRUE.     *)
(***************************************************************************)
\* the threads that send commands
NumThreads == 2

Threads == 1..NumThreads

NoThread == 0

\* what reset_arduino_device can do: return True with a new connection,
\* return False leaving the connection as it was (no script, the script
\* fails, an exception), or return False after a failed reconnect
ResetOutcomes == {"reset", "not_reset", "not_reconnected"}

\* self.connection after reset_arduino_device
ConnectionAfterReset(outcome) ==
  CASE outcome = "reset" -> "open"
    [] outcome = "not_reconnected" -> "none"
    [] OTHER -> connection

\* a frame of thread t returns value; the with block it is in, if any,
\* releases command_lock
CmdReturn(t, value, in_with_block) ==
  /\ cmd_ret' = [cmd_ret EXCEPT ![t] = value]
  /\ cmd_pc' = [cmd_pc EXCEPT ![t] = "returned"]
  /\ cmd_depth' = [cmd_depth EXCEPT ![t] = 0]
  /\ command_lock' = IF in_with_block THEN NoThread ELSE command_lock

\* entry of send_command_with_timeout: the check of self.connection
CmdEnter(t) ==
  IF connection = "none"
  THEN CmdReturn(t, "False", cmd_depth[t] > 0)
  ELSE /\ cmd_pc' = [cmd_pc EXCEPT ![t] = "acquire"]
       /\ cmd_depth' = [cmd_depth EXCEPT ![t] = @ + 1]
       /\ UNCHANGED <<cmd_ret, command_lock>>

\* a thread calls send_command_with_timeout
CmdCall(t) ==
  /\ cmd_pc[t] \in {"idle", "returned"}
  /\ cmd_sent' = [cmd_sent EXCEPT ![t] = 0]
  /\ CmdEnter(t)
  /\ UNCHANGED <<connection, idle_expired>>
  /\ UNCHANGED <<graphVars, engineVars, fnVars, moveVars, ctlVars, ratioVars, recVars>>

\* Lock.acquire() blocks while a thread holds the lock, with the mutation
\* of a with block that does not lock
LockNeverHeld(lock) == TRUE
LockFree(lock) == lock = NoThread

\* with self.command_lock: Lock.acquire() returns once the lock is free
CmdAcquire(t) ==
  /\ cmd_pc[t] = "acquire"
  /\ LockFree(command_lock)
  /\ command_lock' = t
  /\ cmd_pc' = [cmd_pc EXCEPT ![t] = "check_idle"]
  /\ UNCHANGED <<connection, idle_expired, cmd_depth, cmd_sent, cmd_ret>>
  /\ UNCHANGED <<graphVars, engineVars, fnVars, moveVars, ctlVars, ratioVars, recVars>>

\* lines 79-85: the reset when the previous command is older than
\* command_timeout, then last_command_time = current_time
CmdCheckIdle(t) ==
  /\ cmd_pc[t] = "check_idle"
  /\ \/ /\ idle_expired
        /\ \E outcome \in ResetOutcomes :
             /\ connection' = ConnectionAfterReset(outcome)
             /\ IF outcome = "reset"
                THEN /\ idle_expired' = FALSE
                     /\ cmd_pc' = [cmd_pc EXCEPT ![t] = "write"]
                     /\ UNCHANGED <<cmd_ret, cmd_depth, command_lock>>
                ELSE /\ CmdReturn(t, "False", TRUE)
                     /\ UNCHANGED idle_expired
     \/ /\ ~idle_expired
        /\ cmd_pc' = [cmd_pc EXCEPT ![t] = "write"]
        /\ UNCHANGED <<connection, idle_expired, cmd_ret, cmd_depth, command_lock>>
  /\ UNCHANGED cmd_sent
  /\ UNCHANGED <<graphVars, engineVars, fnVars, moveVars, ctlVars, ratioVars, recVars>>

\* line 88: connection.write, which transmits or raises
CmdWrite(t) ==
  /\ cmd_pc[t] = "write"
  /\ \/ /\ connection = "open"
        /\ cmd_sent' = [cmd_sent EXCEPT ![t] = @ + 1]
        /\ cmd_pc' = [cmd_pc EXCEPT ![t] = "wait"]
     \/ /\ cmd_pc' = [cmd_pc EXCEPT ![t] = "failed"]
        /\ UNCHANGED cmd_sent
  /\ UNCHANGED <<connection, idle_expired, command_lock, cmd_depth, cmd_ret>>
  /\ UNCHANGED <<graphVars, engineVars, fnVars, moveVars, ctlVars, ratioVars, recVars>>

\* lines 90-113: the wait for the response; it arrives within
\* command_timeout, or the deadline passes, or reading raises
CmdWait(t) ==
  /\ cmd_pc[t] = "wait"
  /\ \/ /\ CmdReturn(t, "True", TRUE)
        /\ UNCHANGED idle_expired
     \/ /\ cmd_pc' = [cmd_pc EXCEPT ![t] = "failed"]
        /\ UNCHANGED <<idle_expired, cmd_ret, cmd_depth, command_lock>>
  /\ UNCHANGED <<connection, cmd_sent>>
  /\ UNCHANGED <<graphVars, engineVars, fnVars, moveVars, ctlVars, ratioVars, recVars>>

\* lines 104-112 and 115-124: reset_arduino_device, then the retry
\* "return self.send_command_with_timeout(command)" from inside the with
\* block, or return False
CmdResetAndRetry(t) ==
  /\ cmd_pc[t] = "failed"
  /\ \E outcome \in ResetOutcomes :
       /\ connection' = ConnectionAfterReset(outcome)
       /\ IF outcome = "reset"
          THEN \* the recursive call: its entry check reads the new connection
               /\ cmd_pc' = [cmd_pc EXCEPT ![t] = "acquire"]
               /\ cmd_depth' = [cmd_depth EXCEPT ![t] = @ + 1]
               /\ UNCHANGED <<cmd_ret, command_lock>>
          ELSE CmdReturn(t, "False", TRUE)
  /\ UNCHANGED <<idle_expired, cmd_sent>>
  /\ UNCHANGED <<graphVars, engineVars, fnVars, moveVars, ctlVars, ratioVars, recVars>>

\* more than command_timeout seconds pass without a command being started
IdlePasses ==
  /\ ~idle_expired
  /\ idle_expired' = TRUE
  /\ UNCHANGED <<connection, command_lock, cmd_pc, cmd_depth, cmd_sent, cmd_ret>>
  /\ UNCHANGED <<graphVars, engineVars, fnVars, moveVars, ctlVars, ratioVars, recVars>>

\* ESP32Mouse after __init__, no command sent yet: serial.Serial(...)
\* returned a connection (is_open) or raised
CmdInit(is_open) ==
  /\ connection = IF is_open THEN "open" ELSE "none"
  /\ idle_expired = TRUE
  /\ command_lock = NoThread
  /\ cmd_pc = [t \in Threads |-> "idle"]
  /\ cmd_depth = [t \in Threads |-> 0]
  /\ cmd_sent = [t \in Threads |-> 0]
  /\ cmd_ret = [t \in Threads |-> "none"]

(***************************************************************************)
(* MouseController.move_to_target (mouse_controller.py).                   *)
(*                                                                         *)
(* A frame is what one screenshot shows: whether find_pointer finds the    *)
(* pointer in it (found), whether the credential-prompt classifier         *)
(* quick_test reports true for it (prompt) and, when the pointer is found, *)
(* whether it is within tolerance of the target on both axes (near) and    *)
(* more than 5 pixels from the previous position (moved).  The positions   *)
(* themselves are left to the environment.                                 *)
(***************************************************************************)
\* MouseConfig.max_attempts
max_attempts == 10

\* ExplorationConfig.max_lost_pointer_count
max_lost_pointer_count == 5

\* "Try recovery after 2 failed moves"
NoMovementRecoveryAfter == 2

ObservedFrames ==
  {[found |-> TRUE, prompt |-> p, near |-> n, moved |-> m] :
     p \in BOOLEAN, n \in BOOLEAN, m \in BOOLEAN}
  \cup {[found |-> FALSE, prompt |-> p, near |-> FALSE, moved |-> FALSE] :
          p \in BOOLEAN}

\* no frame observed in this call yet
NoFrame == [found |-> FALSE, prompt |-> FALSE, near |-> FALSE, moved |-> FALSE]

\* move_to_target without the credential-prompt test
PasswordAbortNever(frame) == FALSE

\* the test that leads to the password_detected result: pointer_pos is None
\* and _check_password_input(file_path) is true
PasswordAbort(frame) == ~frame.found /\ frame.prompt

\* move_to_target returns a PointerMoveResult of the given kind
MoveReturn(kind) ==
  /\ mv_pc' = "returned"
  /\ mv_result' = kind

\* lines 166-188: the call up to the first find_pointer
MoveStart ==
  /\ mv_pc = "idle"
  /\ attempts' = 0
  /\ lost_pointer_count' = 0
  /\ mv_commanded' = FALSE
  /\ \/ \* "Failed to take initial screenshot"
        /\ MoveReturn("failed")
        /\ mv_frame' = NoFrame
     \/ \E frame \in ObservedFrames :
          /\ mv_frame' = frame
          /\ mv_pc' = "initial"
          /\ mv_result' = "none"
  /\ UNCHANGED consecutive_no_movement
  /\ UNCHANGED <<graphVars, explorerVars, fnVars, cmdVars, ctlVars, ratioVars, recVars>>

\* lines 189-243: the reaction to the first frame, recovery included
MoveInitial ==
  /\ mv_pc = "initial"
  /\ \/ /\ mv_frame.found
        /\ IF mv_frame.near THEN MoveReturn("success")
           ELSE mv_pc' = "loop" /\ mv_result' = "none"
        /\ UNCHANGED <<mv_frame, mv_commanded>>
     \/ /\ PasswordAbort(mv_frame)
        /\ MoveReturn("blocked")
        /\ UNCHANGED <<mv_frame, mv_commanded>>
     \/ \* _recover_pointer fails, or the screenshot after it does
        /\ ~mv_frame.found
        /\ ~PasswordAbort(mv_frame)
        /\ mv_commanded' = TRUE
        /\ MoveReturn("failed")
        /\ UNCHANGED mv_frame
     \/ \* _recover_pointer succeeds and the frame after it is observed
        /\ ~mv_frame.found
        /\ ~PasswordAbort(mv_frame)
        /\ mv_commanded' = TRUE
        /\ \E frame \in ObservedFrames :
             /\ mv_frame' = frame
             /\ IF frame.found
                THEN IF frame.near THEN MoveReturn("success")
                     ELSE mv_pc' = "loop" /\ mv_result' = "none"
                ELSE IF PasswordAbort(frame) THEN MoveReturn("blocked")
                ELSE MoveReturn("failed")
  /\ UNCHANGED <<attempts, lost_pointer_count, consecutive_no_movement>>
  /\ UNCHANGED <<graphVars, explorerVars, fnVars, cmdVars, ctlVars, ratioVars, recVars>>

\* lines 265-296: one move_pixel, the screenshot and find_pointer
MoveStep ==
  /\ mv_pc = "loop"
  /\ \/ \* "Mouse movement failed"
        /\ MoveReturn("failed")
        /\ mv_commanded' = FALSE
        /\ UNCHANGED mv_frame
     \/ \* "Failed to take screenshot during movement"
        /\ MoveReturn("failed")
        /\ mv_commanded' = TRUE
        /\ UNCHANGED mv_frame
     \/ \* a command of move_pixel gets no answer in time, the device is
        \* reset and the retry waits for the lock its own call holds
        /\ mv_pc' = "hung"
        /\ mv_result' = "none"
        /\ mv_commanded' = TRUE
        /\ UNCHANGED mv_frame
     \/ \E frame \in ObservedFrames :
          /\ mv_frame' = frame
          /\ mv_commanded' = TRUE
          /\ mv_pc' = "observed"
          /\ mv_result' = "none"
  /\ UNCHANGED <<attempts, lost_pointer_count, consecutive_no_movement>>
  /\ UNCHANGED <<graphVars, explorerVars, fnVars, cmdVars, ctlVars, ratioVars, recVars>>

\* lines 346-452: the pointer position of the frame is accepted; recovered
\* tells whether the recovery of a pointer that did not move found it again,
\* near_after whether the position then used is within tolerance
MovePositionFound(frame, recovered, near_after) ==
  LET counted == IF frame.moved THEN 0 ELSE consecutive_no_movement + 1
      tried_recovery == ~frame.moved /\ counted >= NoMovementRecoveryAfter
      no_movement_after == IF tried_recovery /\ recovered THEN 0 ELSE counted
      near == IF tried_recovery /\ recovered THEN near_after ELSE frame.near
  IN /\ consecutive_no_movement' = no_movement_after
     /\ mv_commanded' = tried_recovery
     /\ IF ~frame.moved /\ no_movement_after >= max_no_movement_attempts
        THEN MoveReturn("stuck") /\ UNCHANGED attempts
        ELSE /\ attempts' = attempts + 1
             /\ IF attempts + 1 > max_attempts THEN MoveReturn("failed")
                ELSE IF near THEN MoveReturn("success")
                ELSE mv_pc' = "loop" /\ mv_result' = "none"

\* lines 297-452: the reaction to the frame observed after a step
MoveReact ==
  /\ mv_pc = "observed"
  /\ \/ /\ mv_frame.found
        /\ lost_pointer_count' = 0
        /\ \E recovered \in BOOLEAN, near_after \in BOOLEAN :
             MovePositionFound(mv_frame, recovered, near_after)
        /\ UNCHANGED mv_frame
     \/ /\ PasswordAbort(mv_frame)
        /\ MoveReturn("blocked")
        /\ mv_commanded' = FALSE
        /\ UNCHANGED <<mv_frame, lost_pointer_count, attempts,
                       consecutive_no_movement>>
     \/ \* "Pointer lost n times"
        /\ ~mv_frame.found
        /\ ~PasswordAbort(mv_frame)
        /\ lost_pointer_count + 1 >= max_lost_pointer_count
        /\ lost_pointer_count' = lost_pointer_count + 1
        /\ MoveReturn("failed")
        /\ mv_commanded' = FALSE
        /\ UNCHANGED <<mv_frame, attempts, consecutive_no_movement>>
     \/ /\ ~mv_frame.found
        /\ ~PasswordAbort(mv_frame)
        /\ lost_pointer_count + 1 < max_lost_pointer_count
        /\ lost_pointer_count' = lost_pointer_count + 1
        /\ mv_commanded' = TRUE
        /\ \/ \* _recover_pointer fails: continue
              /\ mv_pc' = "loop"
              /\ mv_result' = "none"
              /\ UNCHANGED mv_frame
           \/ \* it succeeds but the screenshot after it fails: pointer_pos
              \* is still None and unpacking it raises TypeError
              /\ MoveReturn("raised")
              /\ UNCHANGED mv_frame
           \/ \* it succeeds and the frame after it is observed
              /\ \E frame \in ObservedFrames :
                   /\ mv_frame' = frame
                   /\ mv_pc' = "recovered"
                   /\ mv_result' = "none"
        /\ UNCHANGED <<attempts, consecutive_no_movement>>
  /\ UNCHANGED <<graphVars, explorerVars, fnVars, cmdVars, ctlVars, ratioVars, recVars>>

\* lines 326-344: the reaction to the frame observed after a recovery
MoveRecovered ==
  /\ mv_pc = "recovered"
  /\ \/ /\ mv_frame.found
        /\ \E recovered \in BOOLEAN, near_after \in BOOLEAN :
             MovePositionFound(mv_frame, recovered, near_after)
        /\ UNCHANGED <<mv_frame, lost_pointer_count>>
     \/ /\ PasswordAbort(mv_frame)
        /\ MoveReturn("blocked")
        /\ mv_commanded' = FALSE
        /\ UNCHANGED <<mv_frame, lost_pointer_count, attempts,
                       consecutive_no_movement>>
     \/ \* continue
        /\ ~mv_frame.found
        /\ ~PasswordAbort(mv_frame)
        /\ mv_pc' = "loop"
        /\ mv_result' = "none"
        /\ mv_commanded' = FALSE
        /\ UNCHANGED <<mv_frame, lost_pointer_count, attempts,
                       consecutive_no_movement>>
  /\ UNCHANGED <<graphVars, explorerVars, fnVars, cmdVars, ctlVars, ratioVars, recVars>>

\* the caller takes the result (explore_state lines 231-245 reset the
\* counter of a pointer that did not move once it reached the ceiling)
MoveDone ==
  /\ mv_pc = "returned"
  /\ mv_pc' = "idle"
  /\ consecutive_no_movement' =
       IF mv_result # "success"
          /\ consecutive_no_movement >= max_no_movement_attempts
       THEN 0 ELSE consecutive_no_movement
  /\ UNCHANGED <<mv_frame, mv_result, mv_commanded, attempts, lost_pointer_count>>
  /\ UNCHANGED <<graphVars, explorerVars, fnVars, cmdVars, ctlVars, ratioVars, recVars>>

\* no move_to_target call is running
MoveIdle ==
  /\ mv_pc = "idle"
  /\ mv_frame = NoFrame
  /\ mv_result = "none"
  /\ mv_commanded = FALSE
  /\ attempts = 0
  /\ lost_pointer_count = 0

\* no simulated move_to_target call is open
CtlIdle == ctl = [pc |-> "idle"]

\* units of a gain ratio per 1.0
RatioScale == 1000

\* MouseController.__init__: mouse_ratio = (0.60, 0.91)
InitialRatio == <<(60 * RatioScale) \div 100, (91 * RatioScale) \div 100>>

\* a controller after __init__: nothing calibrated or learned yet
RatioIdle ==
  /\ mouse_ratio = InitialRatio
  /\ ratio_history = <<>>
  /\ ratio_op = "none"

\* request handlers the server runs at the same time
NumHandlers == 2

\* Thread objects one run of the service creates
MaxRecordings == 3

\* None where a Thread or Event object is expected
NoRecording == 0

\* a request handler between two requests
HandlerIdle == [pc |-> "idle", app_name |-> "None", joined |-> NoRecording,
                response |-> "none"]

\* the module after import: no recording, no thread, no event
RecIdle ==
  /\ recording_thread = NoRecording
  /\ recording_active = FALSE
  /\ current_app_name = "None"
  /\ current_video_path = NoRecording
  /\ recording_stop_event = NoRecording
  /\ rec_threads = [t \in 1..MaxRecordings |-> "unborn"]
  /\ stop_events = [t \in 1..MaxRecordings |-> FALSE]
  /\ handlers = [h \in 1..NumHandlers |-> HandlerIdle]

(***************************************************************************)
(* The run of the engine.                                                  *)
(***************************************************************************)
\* no function is called directly
FnIdle ==
  /\ fn_pc = "idle"
  /\ fn_in = <<>>
  /\ fn_out = <<>>

\* a run of the engine
Init ==
  /\ EngineInit
  /\ FnIdle
  /\ CmdInit(TRUE)
  /\ MoveIdle
  /\ CtlIdle
  /\ RatioIdle
  /\ RecIdle

\* the steps of the engine thread
EngineStep ==
  \/ CaptureHome
  \/ CaptureHomeAgain
  \/ OpenApp
  \/ ExploreAllStates
  \/ SelectElement
  \/ ClickButton
  \/ Reclassify
  \/ RestartAppAndResume
  \/ FinalizeExploration

Next ==
  \/ Tick
  \/ EngineStep

Spec == Init /\ [][Next]_vars

\* the engine thread keeps running while it has a step to take
LiveSpec == Spec /\ WF_vars(EngineStep)

(***************************************************************************)
(* Threads sending commands to the ESP32.                                  *)
(***************************************************************************)
CmdSpecInit ==
  /\ EngineInit
  /\ FnIdle
  /\ MoveIdle
  /\ CtlIdle
  /\ RatioIdle
  /\ RecIdle
  /\ \E is_open \in BOOLEAN : CmdInit(is_open)

CmdNext ==
  \/ IdlePasses
  \/ \E t \in Threads :
       \/ CmdCall(t)
       \/ CmdAcquire(t)
       \/ CmdCheckIdle(t)
       \/ CmdWrite(t)
       \/ CmdWait(t)
       \/ CmdResetAndRetry(t)

SpecCmd == CmdSpecInit /\ [][CmdNext]_vars

(***************************************************************************)
(* A caller of move_to_target.                                             *)
(***************************************************************************)
MoveNext ==
  \/ MoveStart
  \/ MoveInitial
  \/ MoveStep
  \/ MoveReact
  \/ MoveRecovered
  \/ MoveDone

SpecMove == Init /\ [][MoveNext]_vars

\* the calling thread keeps running while it has a step to take
LiveMove == SpecMove /\ WF_vars(MoveNext)

(***************************************************************************)
(* Direct calls of the similarity engine and of the graph.                 *)
(***************************************************************************)
\* the characters of the texts: OCR-confusable characters, the characters
\* of the merge patterns, an upper-case letter and the blank
Alphabet == {"O", "0", "i", "l", "n", "m", " "}

\* the sequences over S of length at most n
SeqsUpTo(S, n) == UNION {[1..k -> S] : k \in 0..n}

\* words of the semantic groups
SemanticWords ==
  {<<"o","k">>, <<"y","e","s">>, <<"b","a","c","k">>,
   <<"r","e","t","u","r","n">>, <<"g","o"," ","b","a","c","k">>,
   <<"n","e","x","t">>}

Texts == SeqsUpTo(Alphabet, MaxTextLen) \cup SemanticWords

\* text_similarity is called on a pair of texts, in both orders
TextInit ==
  /\ EngineInit
  /\ CmdInit(TRUE)
  /\ MoveIdle
  /\ CtlIdle
  /\ RatioIdle
  /\ RecIdle
  /\ fn_pc = "text_similarity"
  /\ fn_in \in Texts \X Texts
  /\ fn_out = <<>>

CallTextSimilarity ==
  /\ fn_pc = "text_similarity"
  /\ fn_out' = <<text_similarity(fn_in[1], fn_in[2]),
                 text_similarity(fn_in[2], fn_in[1])>>
  /\ fn_pc' = "text_done"
  /\ UNCHANGED fn_in
  /\ UNCHANGED <<graphVars, engineVars, cmdVars, moveVars, ctlVars, ratioVars, recVars>>

SpecText == TextInit /\ [][CallTextSimilarity]_vars

\* the display texts of the elements of the states compared
StateTexts == {<< >>, <<"o","k">>, <<"n","o">>}

\* the Button list check_current_state builds from detected contents
ButtonsOf(contents) ==
  [k \in 1..Len(contents) |-> Btn(k - 1, contents[k], <<k, k, k + 1, k + 1>>)]

ButtonLists == {ButtonsOf(contents) : contents \in SeqsUpTo(StateTexts, MaxButtons)}

\* check_same_states is called on a pair of states, in both orders
StatesInit ==
  /\ EngineInit
  /\ CmdInit(TRUE)
  /\ MoveIdle
  /\ CtlIdle
  /\ RatioIdle
  /\ RecIdle
  /\ fn_pc = "check_same_states"
  /\ fn_in \in ButtonLists \X ButtonLists
  /\ fn_out = <<>>

CallCheckSameStates ==
  /\ fn_pc = "check_same_states"
  /\ fn_out' = <<check_same_states(fn_in[1], fn_in[2]),
                 check_same_states(fn_in[2], fn_in[1])>>
  /\ fn_pc' = "states_done"
  /\ UNCHANGED fn_in
  /\ UNCHANGED <<graphVars, engineVars, cmdVars, moveVars, ctlVars, ratioVars, recVars>>

SpecStates == StatesInit /\ [][CallCheckSameStates]_vars

\* graph.add_state(State(Frames[f])): fn_in is the frame of the call,
\* fn_out what the call returned
CallAddState(f) ==
  /\ fn_pc \in {"idle", "add_state"}
  /\ Len(nodes) < MaxNodes
  /\ nodes' = add_state(nodes, NewStateObject(f))
  /\ fn_pc' = "add_state"
  /\ fn_in' = f
  /\ fn_out' = (nodes' # nodes)
  /\ UNCHANGED <<edges, dead_buttons, home_state>>
  /\ UNCHANGED <<engineVars, cmdVars, moveVars, ctlVars, ratioVars, recVars>>

\* graph.set_home_state(state) for a node of the graph
CallSetHomeState(i) ==
  /\ fn_pc \in {"idle", "add_state"}
  /\ i \in 1..Len(nodes)
  /\ home_state' = i
  /\ fn_pc' = "idle"
  /\ fn_in' = <<>>
  /\ fn_out' = <<>>
  /\ UNCHANGED <<nodes, edges, dead_buttons>>
  /\ UNCHANGED <<engineVars, cmdVars, moveVars, ctlVars, ratioVars, recVars>>

GraphNext ==
  \/ \E f \in 1..NFrames : CallAddState(f)
  \/ \E i \in 1..MaxNodes : CallSetHomeState(i)

SpecGraph == Init /\ [][GraphNext]_vars

(***************************************************************************)
(* The step arithmetic of move_to_target against a simulated actuator.     *)
(* Pixels are integers, as find_pointer reports them.  A step size is      *)
(* held as move_step * mouse_ratio in units of 1/StepScale pixel, which    *)
(* is exact for every value the loop computes: abs(delta) / mouse_ratio,   *)
(* halves, and products by 1.5.                                            *)
(***************************************************************************)
\* units of move_step * mouse_ratio per pixel: 2^13 * 25
StepScale == 204800

\* mouse_ratio, in hundredths
MouseRatio == <<60, 91>>

\* step20 and step10, in 1/100000 pixel
Step20 == 3028706
Step10 == 916582
StepUnit == 100000

\* abs()
AbsInt(v) == IF v < 0 THEN 0 - v ELSE v

\* "1 if delta > 0 else -1", with the mutation of the test that inverts it
SignInverted(delta) == IF delta < 0 THEN 1 ELSE 0 - 1
Sign(delta) == IF delta > 0 THEN 1 ELSE 0 - 1

\* the units move_pixel sends on one axis for px pixels: moves of 20, moves
\* of 10, and one move of the remainder
UnitsFor(px) ==
  LET a == px * StepUnit
  IN  20 * (a \div Step20) + 10 * ((a % Step20) \div Step10)
        + ((a % Step10) \div StepUnit)

\* int(x * mouse_ratio) in move_pixel: when the exact product is a whole
\* number of pixels, the float product of (abs(delta) / ratio) * ratio is
\* that number or just below it
PixelChoices(move_step) ==
  IF move_step % StepScale = 0 /\ move_step > 0
  THEN {move_step \div StepScale, (move_step \div StepScale) - 1}
  ELSE {move_step \div StepScale}

\* abs(delta) / mouse_ratio
FullStep(delta) == AbsInt(delta) * StepScale

\* tolerance, as a step size of the axis
ToleranceStep(tolerance, axis) ==
  tolerance * MouseRatio[axis] * (StepScale \div 100)

\* move_step / 2, with the mutation that keeps the step
KeptStep(move_step) == move_step
HalfStep(move_step) == move_step \div 2

\* the adjustment of one axis after an observation
AdjustAxis(delta, prev_delta, direction, move_step, tolerance, axis) ==
  IF delta * direction < 0
  THEN [direction |-> 0 - direction,
        move_step |-> Max2(ToleranceStep(tolerance, axis),
                           HalfStep(move_step))]
  ELSE IF 2 * AbsInt(delta) < AbsInt(prev_delta)
  THEN [direction |-> Sign(delta),
        move_step |-> Max2(move_step, FullStep(delta))]
  ELSE IF 10 * AbsInt(delta) > 9 * AbsInt(prev_delta)
  THEN [direction |-> Sign(delta),
        move_step |-> Min2((move_step * 3) \div 2, FullStep(delta))]
  ELSE [direction |-> Sign(delta),
        move_step |-> FullStep(delta)]

\* the pointer stays on the screen; positions in tenths of a pixel
ClampTenths(v, size) == Max2(0, Min2(v, size * 10))

\* the simulated actuator: the pointer moves gain tenths of a pixel for
\* each unit sent
Actuate(pos, gain, units, size) == ClampTenths(pos + gain * units, size)

\* gains of the simulated actuator, in tenths of a pixel per unit
Gains == {6, 10, 20, 30}

\* the calls: where the pointer is, where it is sent, and how close
CtlCalls ==
  [gain : Gains,
   start : {<<0, 0>>, <<100, 100>>, <<900, 700>>},
   target : {<<500, 500>>, <<116, 120>>, <<16, 20>>},
   tolerance : {5, 15}]

\* move_to_target up to its loop: the first observation, the deltas, the
\* first step sizes and the directions
CtlEntered(call) ==
  LET delta_x == call.target[1] - call.start[1]
      delta_y == call.target[2] - call.start[2]
  IN  [pc |-> "loop",
       gain |-> call.gain,
       target_x |-> call.target[1],
       target_y |-> call.target[2],
       tolerance |-> call.tolerance,
       initial_x |-> call.start[1],
       initial_y |-> call.start[2],
       pos_x |-> call.start[1] * 10,
       pos_y |-> call.start[2] * 10,
       x_now |-> call.start[1],
       y_now |-> call.start[2],
       delta_x |-> delta_x,
       delta_y |-> delta_y,
       move_step_x |-> FullStep(delta_x),
       move_step_y |-> FullStep(delta_y),
       x_direction |-> Sign(delta_x),
       y_direction |-> Sign(delta_y),
       attempts |-> 0,
       consecutive_no_movement |-> 0,
       success |-> FALSE]

\* the loop test, and move_pixel on the simulated actuator
CtlMove ==
  /\ ctl.pc = "loop"
  /\ IF AbsInt(ctl.delta_x) > ctl.tolerance \/ AbsInt(ctl.delta_y) > ctl.tolerance
     THEN \E px \in PixelChoices(ctl.move_step_x),
             py \in PixelChoices(ctl.move_step_y) :
            ctl' = [ctl EXCEPT
                      !.pc = "moved",
                      !.pos_x = Actuate(ctl.pos_x, ctl.gain,
                                        ctl.x_direction * UnitsFor(px),
                                        ScreenWidth),
                      !.pos_y = Actuate(ctl.pos_y, ctl.gain,
                                        ctl.y_direction * UnitsFor(py),
                                        ScreenHeight)]
     ELSE ctl' = [ctl EXCEPT !.pc = "returned", !.success = TRUE]
  /\ UNCHANGED <<graphVars, engineVars, fnVars, cmdVars, moveVars, ratioVars, recVars>>

\* the observation of the pointer, the no-movement count with its recovery
\* through the corners of the screen, the adjustment of both axes, and the
\* count of attempts
CtlObserve ==
  /\ ctl.pc = "moved"
  /\ LET seen_x == ctl.pos_x \div 10
         seen_y == ctl.pos_y \div 10
         still == (seen_x - ctl.x_now) * (seen_x - ctl.x_now)
                    + (seen_y - ctl.y_now) * (seen_y - ctl.y_now) <= 25
         counted == IF still THEN ctl.consecutive_no_movement + 1 ELSE 0
         recover == still /\ counted >= NoMovementRecoveryAfter
         no_movement == IF recover THEN 0 ELSE counted
         x_now == IF recover THEN 0 ELSE seen_x
         y_now == IF recover THEN 0 ELSE seen_y
         delta_x == ctl.target_x - x_now
         delta_y == ctl.target_y - y_now
         x_axis == AdjustAxis(delta_x, ctl.delta_x, ctl.x_direction,
                              ctl.move_step_x, ctl.tolerance, 1)
         y_axis == AdjustAxis(delta_y, ctl.delta_y, ctl.y_direction,
                              ctl.move_step_y, ctl.tolerance, 2)
     IN  IF no_movement >= max_no_movement_attempts
         THEN ctl' = [ctl EXCEPT !.pc = "returned",
                                 !.x_now = x_now, !.y_now = y_now,
                                 !.consecutive_no_movement = no_movement]
         ELSE ctl' = [ctl EXCEPT
                        !.pc = IF ctl.attempts + 1 > max_attempts
                               THEN "returned" ELSE "loop",
                        !.pos_x = IF recover THEN 0 ELSE ctl.pos_x,
                        !.pos_y = IF recover THEN 0 ELSE ctl.pos_y,
                        !.x_now = x_now,
                        !.y_now = y_now,
                        !.delta_x = delta_x,
                        !.delta_y = delta_y,
                        !.move_step_x = x_axis.move_step,
                        !.move_step_y = y_axis.move_step,
                        !.x_direction = x_axis.direction,
                        !.y_direction = y_axis.direction,
                        !.attempts = ctl.attempts + 1,
                        !.consecutive_no_movement = no_movement]
  /\ UNCHANGED <<graphVars, engineVars, fnVars, cmdVars, moveVars, ratioVars, recVars>>

\* one call of move_to_target
CtlInit ==
  /\ EngineInit
  /\ FnIdle
  /\ CmdInit(TRUE)
  /\ MoveIdle
  /\ RatioIdle
  /\ RecIdle
  /\ \E call \in CtlCalls : ctl = CtlEntered(call)

CtlNext ==
  \/ CtlMove
  \/ CtlObserve

SpecCtl == CtlInit /\ [][CtlNext]_vars

(***************************************************************************)
(* AppManager.open_app and AppManager.restart_app (app_manager.py), called *)
(* directly.  What a call did is kept in fn_out: the methods of the        *)
(* manager it executed, the commands open_app sent to the ESP32, the value *)
(* open_app returned, and the value of the call.                           *)
(***************************************************************************)
\* the longest application name
MaxNameLen == 34

\* max_chunk_size
max_chunk_size == 16

\* application names of every length, over three characters
AppNames ==
  {[i \in 1..n |-> <<"a", "b", " ">>[((i + k) % 3) + 1]] :
     n \in 0..MaxNameLen, k \in 0..2}

\* the texts open_app passes to print_text, in order
PrintedTexts(app_name) ==
  IF Len(app_name) > max_chunk_size
  THEN <<SubSeq(app_name, 1, max_chunk_size),
         SubSeq(app_name, max_chunk_size + 1, Len(app_name))>>
  ELSE <<app_name>>

\* the commands of open_app, in order
OpenAppCommands(app_name) ==
  <<[method |-> "keypress_action", arg |-> <<"SPOTLIGHT">>]>>
    \o [k \in 1..Len(PrintedTexts(app_name)) |->
          [method |-> "print_text", arg |-> PrintedTexts(app_name)[k]]]
    \o <<[method |-> "write_key", arg |-> <<"ENTER">>],
         [method |-> "keypress_action", arg |-> <<"SPOTLIGHT">>]>>

\* open_app sends its commands and returns (True, None); an exception
\* raised at one of them sends it to the except clause, which returns
\* (False, None).  sent is the number of commands issued.
OpenAppOutcome(app_name, sent, calls_before) ==
  [calls |-> Append(calls_before, "open_app"),
   commands |-> SubSeq(OpenAppCommands(app_name), 1, sent),
   open_app |-> IF sent = Len(OpenAppCommands(app_name))
                THEN "True" ELSE "False",
   result |-> sent = Len(OpenAppCommands(app_name))]

\* a call of open_app(app_name)
CallOpenApp ==
  /\ fn_pc = "idle"
  /\ \E sent \in 0..Len(OpenAppCommands(fn_in)) :
       fn_out' = OpenAppOutcome(fn_in, sent, <<>>)
  /\ fn_pc' = "open_app_done"
  /\ UNCHANGED fn_in
  /\ UNCHANGED <<graphVars, engineVars, cmdVars, moveVars, ctlVars, ratioVars, recVars>>

\* a call of restart_app(app_name): close_app, which is close_all_apps and
\* returns True, or False after an exception; open_app only after True
CallRestartApp ==
  /\ fn_pc = "idle"
  /\ \/ \E sent \in 0..Len(OpenAppCommands(fn_in)) :
          fn_out' = OpenAppOutcome(fn_in, sent, <<"close_all_apps">>)
     \/ fn_out' = [calls |-> <<"close_all_apps">>,
                   commands |-> <<>>,
                   open_app |-> "none",
                   result |-> FALSE]
  /\ fn_pc' = "restart_app_done"
  /\ UNCHANGED fn_in
  /\ UNCHANGED <<graphVars, engineVars, cmdVars, moveVars, ctlVars, ratioVars, recVars>>

AppInit ==
  /\ EngineInit
  /\ CmdInit(TRUE)
  /\ MoveIdle
  /\ CtlIdle
  /\ RatioIdle
  /\ RecIdle
  /\ fn_pc = "idle"
  /\ fn_in \in AppNames
  /\ fn_out = <<>>

AppNext ==
  \/ CallOpenApp
  \/ CallRestartApp

SpecApp == AppInit /\ [][AppNext]_vars

(***************************************************************************)
(* The gain estimate of MouseController (mouse_controller.py):             *)
(* calibrate_ratio and the learning at the end of a converged move.  A     *)
(* ratio is held in units of 1/RatioScale, which is exact for the ratios   *)
(* of the movements below and for the first two blends of an estimate      *)
(* with a median; later blends are rounded down to that unit.              *)
(***************************************************************************)
\* the largest len(ratio_history) in the runs checked
MaxSamples == 4

\* MouseConfig.ratio_learning_samples
ratio_learning_samples == 3

\* MouseConfig.min_ratio_samples
min_ratio_samples == 3

\* MouseConfig.ratio_learning_rate, in tenths
RatioLearningRateTenths == 3

\* delta_x = delta_y of the calibrate_ratio call of the set-up
CalibrationDelta == 300

\* abs(x_target - x_now), abs(y_target - y_now) that calibrate_ratio can
\* observe after its movement: a pointer that did not move, or one that
\* moved by 0.6 and 0.91 of the command
CalibrationDisplacements == {<<dx, dy>> : dx \in {0, 180}, dy \in {0, 273}}

\* calibrate_ratio lines 645-647
CalibratedRatio(displacement, delta) ==
  IF delta # 0 THEN (displacement * RatioScale) \div delta ELSE RatioScale

\* (abs(actual_delta), abs(total_movement)) of one axis of a converged move:
\* no movement commanded, a ratio of 0.6, of 1.2, and a target at the
\* initial coordinate reached after commanded movement
XMovements == {<<0, 0>>, <<300, 500>>, <<600, 500>>, <<0, 100>>}
YMovements == {<<0, 0>>, <<600, 500>>}

\* _update_ratio_from_movement lines 540-543
effective_ratio(movement, own_ratio) ==
  IF movement[2] # 0 THEN (movement[1] * RatioScale) \div movement[2]
  ELSE own_ratio

\* ratio_history[-ratio_learning_samples:]
recent_samples(history) ==
  SubSeq(history, Max2(1, Len(history) - ratio_learning_samples + 1),
         Len(history))

\* sum(f(x) for x in ratios), with f the identity or the square
RECURSIVE SumOfRatios(_, _)
SumOfRatios(ratios, squared) ==
  IF ratios = <<>> THEN 0
  ELSE (IF squared THEN Head(ratios) * Head(ratios) ELSE Head(ratios))
       + SumOfRatios(Tail(ratios), squared)

\* ratios.sort(); ratios[len(ratios) // 2]: the value with at most
\* len // 2 values below it and more than len // 2 values not above it
median_ratio(ratios) ==
  CHOOSE v \in {ratios[k] : k \in 1..Len(ratios)} :
    /\ Cardinality({k \in 1..Len(ratios) : ratios[k] < v})
         <= Len(ratios) \div 2
    /\ Cardinality({k \in 1..Len(ratios) : ratios[k] <= v})
         > Len(ratios) \div 2

\* lines 576-582: the standard deviation of the ratios is below 0.1, that
\* is n * sum(x^2) - sum(x)^2 < 0.01 * n^2
RatiosConsistent(ratios) ==
  Len(ratios) * SumOfRatios(ratios, TRUE)
    - SumOfRatios(ratios, FALSE) * SumOfRatios(ratios, FALSE)
  < Len(ratios) * Len(ratios) * ((RatioScale * RatioScale) \div 100)

\* lines 584-585: mouse_ratio * (1 - rate) + median_ratio * rate
BlendedRatio(ratio, median) ==
  (ratio * (10 - RatioLearningRateTenths) + median * RatioLearningRateTenths)
    \div 10

\* _apply_ratio_learning: mouse_ratio after the call
_apply_ratio_learning(ratio, history) ==
  LET recent == recent_samples(history)
      x_ratios == [k \in 1..Len(recent) |-> recent[k][1]]
      y_ratios == [k \in 1..Len(recent) |-> recent[k][2]]
  IN IF RatiosConsistent(x_ratios) /\ RatiosConsistent(y_ratios)
     THEN <<BlendedRatio(ratio[1], median_ratio(x_ratios)),
            BlendedRatio(ratio[2], median_ratio(y_ratios))>>
     ELSE ratio

\* a learning that is applied whatever the number of samples
AnySamples(history) == TRUE

\* line 558: len(self.ratio_history) >= self.config.mouse.min_ratio_samples
EnoughSamples(history) == Len(history) >= min_ratio_samples

\* calibrate_ratio: a screenshot, find_pointer or the movement fails and the
\* call returns False, or the ratio of the observed displacement is stored
CalibrateRatio ==
  /\ ratio_history = <<>>
  /\ ratio_op \in {"none", "not_calibrated"}
  /\ \/ /\ ratio_op' = "not_calibrated"
        /\ UNCHANGED mouse_ratio
     \/ \E displacement \in CalibrationDisplacements :
          /\ mouse_ratio' =
               <<CalibratedRatio(displacement[1], CalibrationDelta),
                 CalibratedRatio(displacement[2], CalibrationDelta)>>
          /\ ratio_op' = "calibrated"
  /\ UNCHANGED ratio_history
  /\ UNCHANGED <<graphVars, engineVars, fnVars, cmdVars, moveVars, ctlVars, recVars>>

\* move_to_target returns a failure: no line of it writes mouse_ratio or
\* ratio_history
FailedMove ==
  /\ ratio_op' = "failed"
  /\ UNCHANGED <<mouse_ratio, ratio_history>>
  /\ UNCHANGED <<graphVars, engineVars, fnVars, cmdVars, moveVars, ctlVars, recVars>>

\* move_to_target lines 454-477: the loop has ended within tolerance and
\* _update_ratio_from_movement is called
ConvergedMove ==
  /\ Len(ratio_history) < MaxSamples
  /\ \E x \in XMovements, y \in YMovements :
       LET history == Append(ratio_history,
                             <<effective_ratio(x, mouse_ratio[1]),
                               effective_ratio(y, mouse_ratio[2])>>)
       IN /\ ratio_history' = history
          /\ mouse_ratio' = IF EnoughSamples(history)
                            THEN _apply_ratio_learning(mouse_ratio, history)
                            ELSE mouse_ratio
  /\ ratio_op' = "converged"
  /\ UNCHANGED <<graphVars, engineVars, fnVars, cmdVars, moveVars, ctlVars, recVars>>

RatioNext ==
  \/ CalibrateRatio
  \/ FailedMove
  \/ ConvergedMove

SpecRatio == Init /\ [][RatioNext]_vars

(***************************************************************************)
(* The batch runner (run_batch_apps.py).  It runs one application after    *)
(* another, records for each the status computed from what                 *)
(* StateExplorerApp.run returned, and on a resumed batch leaves out the    *)
(* applications recorded with status "Success".                            *)
(***************************************************************************)
\* main.py main(): the process exit code of a single run
exit_code(success) == IF success THEN 0 ELSE 1

\* run_batch_apps.py: the status stored for an application after app.run()
result_status(success) == IF success THEN "Success" ELSE "Failed"

\* run_batch_apps.py: the resume filter keeps an application in the work
\* list unless its stored status is "Success"
skipped_on_resume(status) == status = "Success"

(***************************************************************************)
(* The recording service (video_recorder_service.py).  The server hands    *)
(* every request to a handler thread of its own, so the statements of two  *)
(* handlers interleave; the module globals are shared and no lock guards   *)
(* them.  A Thread object and the Event created with it carry the same     *)
(* number.  record_stream tests the event only when a frame arrives, so a  *)
(* recording whose stream delivers no frame does not end.                  *)
(***************************************************************************)
\* what a request can carry as app_name; "" stands for a missing name
RequestNames == {"", "app"}

\* the Thread objects whose record_stream is running
RunningRecordings ==
  {t \in 1..MaxRecordings : rec_threads[t] \in {"started", "recording"}}

\* the number of the next Thread object
NextRecording ==
  Cardinality({t \in 1..MaxRecordings : rec_threads[t] # "unborn"}) + 1

\* start_recording, the test of recording_active and of the request body
StartCheck(h) ==
  /\ handlers[h].pc = "idle"
  /\ \E name \in RequestNames :
       handlers' = [handlers EXCEPT ![h] =
         IF recording_active
         THEN \* "Recording already in progress"
              [HandlerIdle EXCEPT !.response = "error"]
         ELSE IF name = ""
         THEN \* "Missing app_name"
              [HandlerIdle EXCEPT !.response = "error"]
         ELSE [HandlerIdle EXCEPT !.pc = "start_create", !.app_name = name]]
  /\ UNCHANGED <<recording_thread, recording_active, current_app_name,
                 current_video_path, recording_stop_event, rec_threads,
                 stop_events>>
  /\ UNCHANGED <<graphVars, engineVars, fnVars, cmdVars, moveVars, ctlVars, ratioVars>>

\* start_recording, the assignments of the event, the thread, the flag and
\* the name
StartCreate(h) ==
  /\ handlers[h].pc = "start_create"
  /\ NextRecording <= MaxRecordings
  /\ recording_stop_event' = NextRecording
  /\ recording_thread' = NextRecording
  /\ rec_threads' = [rec_threads EXCEPT ![NextRecording] = "created"]
  /\ recording_active' = TRUE
  /\ current_app_name' = handlers[h].app_name
  /\ handlers' = [handlers EXCEPT ![h].pc = "start_thread"]
  /\ UNCHANGED <<current_video_path, stop_events>>
  /\ UNCHANGED <<graphVars, engineVars, fnVars, cmdVars, moveVars, ctlVars, ratioVars>>

\* start_recording, recording_thread.start() and the response.  The call
\* goes to the object the global names at this moment: it raises when the
\* global is None or when that thread was started before.
StartThread(h) ==
  /\ handlers[h].pc = "start_thread"
  /\ IF recording_thread # NoRecording /\ rec_threads[recording_thread] = "created"
     THEN /\ rec_threads' = [rec_threads EXCEPT ![recording_thread] = "started"]
          /\ handlers' = [handlers EXCEPT ![h] =
                            [HandlerIdle EXCEPT !.response = "started"]]
     ELSE /\ rec_threads' = rec_threads
          /\ handlers' = [handlers EXCEPT ![h] =
                            [HandlerIdle EXCEPT !.response = "error"]]
  /\ UNCHANGED <<recording_thread, recording_active, current_app_name,
                 current_video_path, recording_stop_event, stop_events>>
  /\ UNCHANGED <<graphVars, engineVars, fnVars, cmdVars, moveVars, ctlVars, ratioVars>>

\* stop_recording up to the call of join: the test of the globals, the set
\* of the event, and join entered on the thread the global names.  join
\* raises on a thread that was not started yet.
StopCheck(h) ==
  /\ handlers[h].pc = "idle"
  /\ IF ~recording_active \/ recording_thread = NoRecording
     THEN \* "No recording in progress"
          /\ handlers' = [handlers EXCEPT ![h] =
                            [HandlerIdle EXCEPT !.response = "error"]]
          /\ stop_events' = stop_events
     ELSE /\ stop_events' = IF recording_stop_event # NoRecording
                            THEN [stop_events EXCEPT ![recording_stop_event] = TRUE]
                            ELSE stop_events
          /\ handlers' = [handlers EXCEPT ![h] =
               IF rec_threads[recording_thread] = "created"
               THEN [HandlerIdle EXCEPT !.response = "error"]
               ELSE [HandlerIdle EXCEPT !.pc = "stop_join",
                                        !.joined = recording_thread]]
  /\ UNCHANGED <<recording_thread, recording_active, current_app_name,
                 current_video_path, recording_stop_event, rec_threads>>
  /\ UNCHANGED <<graphVars, engineVars, fnVars, cmdVars, moveVars, ctlVars, ratioVars>>

\* stop_recording after join(timeout=5) has returned, because the thread
\* ended or because the five seconds passed: the globals are cleared and
\* success is returned in both cases
StopFinish(h) ==
  /\ handlers[h].pc = "stop_join"
  /\ recording_active' = FALSE
  /\ current_app_name' = "None"
  /\ current_video_path' = NoRecording
  /\ recording_thread' = NoRecording
  /\ recording_stop_event' = NoRecording
  /\ handlers' = [handlers EXCEPT ![h] =
                    [HandlerIdle EXCEPT !.response = "stopped",
                                        !.joined = handlers[h].joined]]
  /\ UNCHANGED <<rec_threads, stop_events>>
  /\ UNCHANGED <<graphVars, engineVars, fnVars, cmdVars, moveVars, ctlVars, ratioVars>>

\* record_stream, from its first statement to the loop over the stream
RecordBegin(t) ==
  /\ rec_threads[t] = "started"
  /\ rec_threads' = [rec_threads EXCEPT ![t] = "recording"]
  /\ current_video_path' = t
  /\ UNCHANGED <<recording_thread, recording_active, current_app_name,
                 recording_stop_event, stop_events, handlers>>
  /\ UNCHANGED <<graphVars, engineVars, fnVars, cmdVars, moveVars, ctlVars, ratioVars>>

\* record_stream: a frame arrives and the event is found set
RecordSeesStop(t) ==
  /\ rec_threads[t] = "recording"
  /\ stop_events[t]
  /\ rec_threads' = [rec_threads EXCEPT ![t] = "ended"]
  /\ UNCHANGED <<recording_thread, recording_active, current_app_name,
                 current_video_path, recording_stop_event, stop_events, handlers>>
  /\ UNCHANGED <<graphVars, engineVars, fnVars, cmdVars, moveVars, ctlVars, ratioVars>>

\* record_stream: the connection fails, the stream ends or the writer does
\* not open; the globals keep saying that a recording is active
RecordStreamEnds(t) ==
  /\ rec_threads[t] = "recording"
  /\ ~stop_events[t]
  /\ rec_threads' = [rec_threads EXCEPT ![t] = "ended"]
  /\ UNCHANGED <<recording_thread, recording_active, current_app_name,
                 current_video_path, recording_stop_event, stop_events, handlers>>
  /\ UNCHANGED <<graphVars, engineVars, fnVars, cmdVars, moveVars, ctlVars, ratioVars>>

RecNext ==
  \/ \E h \in 1..NumHandlers :
       \/ StartCheck(h)
       \/ StartCreate(h)
       \/ StartThread(h)
       \/ StopCheck(h)
       \/ StopFinish(h)
  \/ \E t \in 1..MaxRecordings :
       \/ RecordBegin(t)
       \/ RecordSeesStop(t)
       \/ RecordStreamEnds(t)

SpecRec == Init /\ [][RecNext]_vars

(***************************************************************************)
(* Properties.                                                             *)
(***************************************************************************)
\* C1: every click attempt is for a (state fingerprint, element id) pair
\* that is not in the dead set at that moment, and a pair once added to the
\* dead set stays in it for the rest of the run, restarts included
DeadElementPermanence ==
  /\ [](pc = "click" =>
         ~is_dead_button(dead_buttons, state_id_of(nodes[FrameStateRef]), button))
  /\ [][dead_buttons \subseteq dead_buttons']_vars

\* a dead element was skipped, the app was restarted, and a click follows
DeadElementSkipped ==
  /\ skipped # <<>>
  /\ skipped \in dead_buttons
  /\ restarted
  /\ pc = "click"

\* C2: clicks_since_new_state never exceeds max_clicks_without_new_state;
\* the step on which it reaches the ceiling requests a restart; while it
\* stays at the ceiling no second restart is requested; and the restart
\* changes neither the number of nodes nor the number of edges
WastedClickCeiling ==
  /\ [](clicks_since_new_state <= max_clicks_without_new_state)
  /\ [][(/\ clicks_since_new_state < max_clicks_without_new_state
          /\ clicks_since_new_state' >= max_clicks_without_new_state)
         => pc' = "restart"]_vars
  /\ [][(/\ clicks_since_new_state >= max_clicks_without_new_state
          /\ pc # "restart")
         => pc' # "restart"]_vars
  /\ [][RestartAppAndResume
         => /\ pc' # "restart"
            /\ get_stats(nodes', edges') = get_stats(nodes, edges)]_vars

\* the restart requested because the ceiling was reached
CeilingRestartRequested ==
  /\ pc = "restart"
  /\ restart_reason = "ceiling"
  /\ clicks_since_new_state = max_clicks_without_new_state

\* C3: every call of explore_all_states reaches Done, having finalized
\* exactly once
ExploreAllStatesFinalizes ==
  /\ [](finalized <= 1)
  /\ (pc = "start") ~> (pc = "done" /\ finalized = 1)

\* check_current_state or the loop of explore_state has seen the budget
\* exhausted, in run() or in explore_all_states
TimeoutSeen == timeout_depth # NotSeen

\* C4: once check_current_state or the loop of explore_state has seen the
\* budget exhausted, no click, move or restart follows, every frame
\* returns and Done is reached
BudgetExhaustionUnwinds ==
  /\ [](TimeoutSeen => pc \notin {"click", "reclassify", "restart", "hung"})
  /\ TimeoutSeen ~> (pc = "done" /\ stack = <<>> /\ finalized = 1)

\* the same for a budget seen exhausted inside explore_all_states, where
\* it holds
BudgetExhaustionUnwindsExploration ==
  /\ [](timeout_depth >= 0 =>
         pc \notin {"click", "reclassify", "restart", "hung"})
  /\ (timeout_depth >= 0) ~> (pc = "done" /\ stack = <<>> /\ finalized = 1)

\* C5: a call of send_command_with_timeout never waits for command_lock
\* while its own thread holds it (such a call never returns), and never
\* transmits the command more than twice
CommandCallReturns ==
  \A t \in Threads :
    /\ ~(cmd_pc[t] = "acquire" /\ command_lock = t)
    /\ cmd_sent[t] <= 2

\* C6: a second add_state of the State built from the same frame returns
\* False and leaves the node list as it is
AddStateIdempotent ==
  [][(fn_pc = "add_state" /\ fn_pc' = "add_state" /\ fn_in' = fn_in)
     => (fn_out' = FALSE /\ nodes' = nodes)]_vars

\* C7: check_same_states is true of two states with identical element
\* lists, whatever their texts, and of two states without elements
StatesEqualReflexive ==
  fn_pc = "states_done" =>
    /\ (fn_in[1] = fn_in[2] => fn_out[1])
    /\ ((fn_in[1] = <<>> /\ fn_in[2] = <<>>) => fn_out[1])

\* C8: two non-empty states whose element counts have a ratio below 0.7
\* are not the same state, in either argument order
CountRatioCut ==
  (/\ fn_pc = "states_done"
   /\ Len(fn_in[1]) > 0
   /\ Len(fn_in[2]) > 0
   /\ 10 * Min2(Len(fn_in[1]), Len(fn_in[2]))
        < 7 * Max2(Len(fn_in[1]), Len(fn_in[2])))
  => (~fn_out[1] /\ ~fn_out[2])

\* two and three elements, all with the text "ok", were compared
TwoAgainstThreeSameText ==
  /\ fn_pc = "states_done"
  /\ Len(fn_in[1]) = 2
  /\ Len(fn_in[2]) = 3
  /\ \A k \in 1..2 : fn_in[1][k].content = <<"o","k">>
  /\ \A k \in 1..3 : fn_in[2][k].content = <<"o","k">>
  /\ ~fn_out[1]

\* C9: text_similarity(a, b) = text_similarity(b, a)
TextSimilaritySymmetric ==
  fn_pc = "text_done" => fn_out[1] = fn_out[2]

\* two different texts of different lengths with a score strictly between
\* 0 and 1 were compared
PartialSimilarityCompared ==
  /\ fn_pc = "text_done"
  /\ Len(fn_in[1]) # Len(fn_in[2])
  /\ fn_out[1] > 0
  /\ fn_out[1] < SimScale
  /\ fn_out[1] = fn_out[2]

\* C10: when the classifier would report true for the frame
\* observed after a step, move_to_target returns the blocked result at
\* once, without a further move command or a recovery
PromptAbortsMove ==
  [][(mv_pc = "observed" /\ mv_frame.prompt)
     => (mv_pc' = "returned" /\ mv_result' = "blocked" /\ ~mv_commanded')]_vars

\* C10 amended to the frames without a pointer: when find_pointer finds no pointer in
\* the frame observed after a step and the classifier reports true for
\* it, move_to_target returns the blocked result at once, without a
\* further move command or a recovery
PromptWithoutPointerAbortsMove ==
  [][(mv_pc = "observed" /\ ~mv_frame.found /\ mv_frame.prompt)
     => (mv_pc' = "returned" /\ mv_result' = "blocked" /\ ~mv_commanded')]_vars

\* the blocked result was returned for the frame observed after a step
BlockedAfterStep ==
  /\ mv_pc = "returned"
  /\ mv_result = "blocked"
  /\ ~mv_frame.found
  /\ mv_frame.prompt
  /\ ~mv_commanded
  /\ lost_pointer_count > 0

\* the loop of move_to_target goes on: a next step will be commanded
CtlGoesOn(c) ==
  /\ c.pc = "loop"
  /\ (AbsInt(c.delta_x) > c.tolerance \/ AbsInt(c.delta_y) > c.tolerance)

\* C11 as stated: whenever an observation shows that the remaining delta of
\* an axis has changed sign relative to the direction just commanded, the
\* next commanded step of that axis is at most half the previous step
OvershootHalvesStep ==
  [][(ctl.pc = "moved" /\ CtlGoesOn(ctl'))
       => /\ (ctl'.delta_x * ctl.x_direction < 0
                => 2 * ctl'.move_step_x <= ctl.move_step_x)
          /\ (ctl'.delta_y * ctl.y_direction < 0
                => 2 * ctl'.move_step_y <= ctl.move_step_y)]_vars

\* C11 amended: whenever an observation shows that the remaining delta of
\* an axis has changed sign relative to the direction just commanded, the
\* next commanded step of that axis is at most the larger of the tolerance
\* and half the previous step
OvershootHalvesStepDownToTolerance ==
  [][(ctl.pc = "moved" /\ CtlGoesOn(ctl'))
       => /\ (ctl'.delta_x * ctl.x_direction < 0
                => ctl'.move_step_x
                     <= Max2(ToleranceStep(ctl.tolerance, 1),
                             ctl.move_step_x \div 2))
          /\ (ctl'.delta_y * ctl.y_direction < 0
                => ctl'.move_step_y
                     <= Max2(ToleranceStep(ctl.tolerance, 2),
                             ctl.move_step_y \div 2))]_vars

\* an overshoot on the X axis was answered with a step of the tolerance,
\* and the loop goes on to command it
OvershootAnsweredWithTolerance ==
  /\ CtlGoesOn(ctl)
  /\ ctl.attempts > 0
  /\ AbsInt(ctl.delta_x) > ctl.tolerance
  /\ ctl.move_step_x = ToleranceStep(ctl.tolerance, 1)

\* the call of C12: an actuator of 0.6 pixel per unit, the pointer first
\* seen at (0,0), the target (500,500), the tolerance 15
GainCall(c) ==
  /\ c.pc # "idle"
  /\ c.gain = 6
  /\ c.initial_x = 0 /\ c.initial_y = 0
  /\ c.target_x = 500 /\ c.target_y = 500
  /\ c.tolerance = 15

AppRestarted ==
  /\ pc = "restart"
  /\ get_unexplored_states(nodes, DeadAfterTrigger) # {}

\* a restart is requested and get_unexplored_states() is empty
RestartWithNothingLeft ==
  /\ pc = "restart"
  /\ get_unexplored_states(nodes, DeadAfterTrigger) = {}

\* C13: after every app restart the engine's next step is the
\* classification of the present screen: it does not go back to the loop
\* of explore_state, where the next element is selected and clicked
RestartThenClassify ==
  [][(AppRestarted /\ pc' \notin {"restart", "hung"})
       => pc' \in {"start", "reclassify"}]_vars

\* C14: whenever explore_all_states reaches Done while the budget is not
\* exhausted, get_unexplored_states() holds no state of the app (the home
\* screen, which is never explored, is left aside)
DoneMeansExhausted ==
  (pc = "done" /\ ~timed_out)
    => get_unexplored_states(nodes, dead_buttons) \subseteq {home_state}

\* C15: if a restart is requested while get_unexplored_states() is empty,
\* restart_app is not called, and as long as get_unexplored_states() is
\* empty the loop of explore_state neither clicks nor requests a restart:
\* it skips or returns until explore_all_states finalizes
NothingLeftLeadsToDone ==
  [][/\ (RestartWithNothingLeft /\ timed_out' = timed_out)
          => /\ restarted' = restarted
             /\ pc' \in {"select", "finalize"}
             /\ get_unexplored_states(nodes', dead_buttons') = {}
     /\ (pc = "select" /\ get_unexplored_states(nodes, dead_buttons) = {}
           /\ timed_out' = timed_out)
          => /\ restarted' = restarted
             /\ pc' \in {"select", "finalize"}
             /\ get_unexplored_states(nodes', dead_buttons') = {}]_vars

\* Done was reached after the ceiling requested a restart that found
\* nothing left to explore: the click counter was not reset and restart_app
\* was never called
DoneAfterDeclinedRestart ==
  /\ pc = "done"
  /\ ~timed_out
  /\ ~restarted
  /\ clicks_since_new_state >= max_clicks_without_new_state

\* C19: at Done the final report marks the run as completed exactly when
\* the exploration did not end on the exhaustion of the budget
CompletedMeansExhausted ==
  pc = "done" => (final_report = "Yes" <=> timeout_depth = NotSeen)

\* C20: when move_to_target returns blocked while approaching element e
\* popped from the queue of state s, the pair added to the dead set is
\* (fingerprint of s, id of e)
BlockedMarksFrameElement ==
  [][(pc = "click" /\ pc' = "restart")
       => is_dead_button(dead_buttons',
                         state_id_of(nodes[FrameStateRef]), button)]_vars

\* the command of thread t is in flight: it has been written and its
\* response, its timeout or the reset that follows it is still to come
InFlight(t) == cmd_pc[t] \in {"wait", "failed"}

\* C16: for any number of threads calling the command methods of one
\* ESP32Mouse, at most one command is in flight, and it is the command of
\* the thread that holds command_lock
OneCommandInFlight ==
  \A t, u \in Threads :
    InFlight(t) => /\ command_lock = t
                   /\ (InFlight(u) => u = t)

\* one thread waits for its response while another waits for the lock
CommandWaitsForLock ==
  \E t, u \in Threads :
    /\ t # u
    /\ cmd_pc[t] = "wait"
    /\ cmd_pc[u] = "acquire"

\* C17: every call of restart_app executes close_all_apps and afterwards
\* open_app(name), in that order, and returns the success value of open_app
RestartClosesThenOpens ==
  fn_pc = "restart_app_done"
    => /\ fn_out.calls = <<"close_all_apps", "open_app">>
       /\ fn_out.result = (fn_out.open_app = "True")

\* the texts of the print_text commands, concatenated in issue order
RECURSIVE PrintedConcatenated(_)
PrintedConcatenated(commands) ==
  IF commands = <<>> THEN <<>>
  ELSE (IF Head(commands).method = "print_text"
        THEN Head(commands).arg ELSE <<>>)
         \o PrintedConcatenated(Tail(commands))

\* C18: for every name, each print_text command issued by open_app carries
\* at most 16 characters, and when open_app has issued all its commands the
\* chunks concatenated in issue order equal the name
ChunksRespectCommandLength ==
  fn_pc = "open_app_done"
    => /\ \A k \in 1..Len(fn_out.commands) :
            fn_out.commands[k].method = "print_text"
              => Len(fn_out.commands[k].arg) <= 16
       /\ (fn_out.result => PrintedConcatenated(fn_out.commands) = fn_in)

\* C21: a restart requested only by the wasted-click ceiling adds no pair
\* to the dead set
CeilingRestartMarksNothing ==
  [][(pc = "restart" /\ restart_reason = "ceiling")
       => dead_buttons' = dead_buttons]_vars

\* C22: capturing the home state before the app opens does not insert it
\* in the graph: when the app is about to be opened, get_stats counts no
\* state and get_unexplored_states returns none
HomeStateOutsideGraph ==
  (pc = "open" /\ home_state # NoneState)
    => /\ get_stats(nodes, edges).total_states = 0
       /\ get_unexplored_states(nodes, dead_buttons) = {}

\* C23: every edge recorded after a click starts at the state from whose
\* queue the clicked element was popped, ends at the state the click
\* reclassified to, and, when it is created, carries the clicked element
EdgeFromFrameState ==
  [][(pc = "reclassify" /\ edges' # edges)
       => LET key == <<state_id_of(nodes[FrameStateRef]),
                       state_id_of(nodes'[current_state'])>>
          IN /\ key \in DOMAIN edges'
             /\ \A k \in (DOMAIN edges') \ {key} :
                  k \in DOMAIN edges /\ edges'[k] = edges[k]
             /\ (key \notin DOMAIN edges
                   => \E k \in 1..Len(buttons_of(nodes[FrameStateRef])) :
                        /\ buttons_of(nodes[FrameStateRef])[k].id = button
                        /\ edges'[key].button
                             = buttons_of(nodes[FrameStateRef])[k])]_vars


\* C24: when the move of a click ends on the stuck abort, the engine adds
\* the pair (frame state, element) to the dead set, resets the controller's
\* no-movement counter and goes on with the next element of the same frame;
\* when the move fails for another reason that is not a credential prompt,
\* nothing is added to the dead set
StuckMarksDeadAndContinues ==
  [][(pc = "click" /\ pc' # "hung" /\ timed_out' = timed_out)
       => /\ (move_result' = "stuck"
                => /\ dead_buttons'
                        = dead_buttons
                            \cup {<<state_id_of(nodes[FrameStateRef]), button>>}
                   /\ consecutive_no_movement' = 0
                   /\ pc' = "select"
                   /\ stack' = stack)
          /\ (move_result' = "failed"
                => /\ dead_buttons' = dead_buttons
                   /\ pc' = "select"
                   /\ stack' = stack)]_vars

StuckElementMarkedDead ==
  /\ pc = "select"
  /\ move_result = "stuck"
  /\ consecutive_no_movement = 0
  /\ \E p \in dead_buttons : p[1] = state_id_of(nodes[FrameStateRef])


\* C25: the count of consecutive observations without movement is 0 when a
\* move_to_target call starts, whatever the call before it returned
CounterZeroAtMoveStart ==
  [][(mv_pc = "idle" /\ mv_pc' # "idle")
       => consecutive_no_movement = 0]_vars


\* C26: no two nodes of the graph have the same state_id
StateIdsUnique ==
  \A i, j \in 1..Len(nodes) :
    state_id_of(nodes[i]) = state_id_of(nodes[j]) => i = j


\* C27: move_to_target always terminates: a call that entered its movement
\* loop returns a result
MoveToTargetReturns == (mv_pc = "loop") ~> (mv_pc = "returned")

\* every iteration of the movement loop of move_to_target that does not
\* return increments attempts or the lost-pointer count, both stay within
\* their ceilings, and a successful result reports at most max_attempts
MoveLoopBounded ==
  /\ [][(mv_pc \in {"observed", "recovered"} /\ mv_pc' = "loop")
          => \/ attempts' = attempts + 1
             \/ lost_pointer_count' = lost_pointer_count + 1
             \/ (mv_pc = "recovered" /\ lost_pointer_count > 0)]_vars
  /\ [](attempts <= max_attempts + 1)
  /\ [](lost_pointer_count <= max_lost_pointer_count)
  /\ [](mv_result = "success" => attempts <= max_attempts)


\* C28: a command on a healthy connection that has not failed is written
\* without a device reset before it and is not failed because of a reset:
\* the step after the lock is taken goes to the write and leaves the
\* connection and the age of the previous command as they are
HealthyCommandWrittenWithoutReset ==
  [][\A t \in Threads :
       (/\ cmd_pc[t] = "check_idle"
        /\ cmd_depth[t] = 1
        /\ connection = "open"
        /\ cmd_pc'[t] # "check_idle")
         => /\ cmd_pc'[t] = "write"
            /\ connection' = connection
            /\ idle_expired' = idle_expired]_vars


\* the node the step pushes an explore_state frame for, or 0
FramePushed ==
  IF Len(stack') > Len(stack) THEN stack'[Len(stack')] ELSE 0

\* C29: every node of the graph is explored by at most one explore_state
\* frame and each of its elements is selected at most once: a frame is
\* only opened for the initial state of the one explore_all_states call or
\* for a node the step has just added; the queue of a node holds no element
\* twice and only changes by losing its head, which is the element the
\* frame of that node selects; no restart and no reclassification to a
\* known node puts an element back
EachElementSelectedOnce ==
  [][/\ Len(nodes') >= Len(nodes)
     /\ \A i \in 1..Len(nodes) :
          /\ nodes'[i].frame = nodes[i].frame
          /\ \/ nodes'[i].unexplored_buttons = nodes[i].unexplored_buttons
             \/ /\ pc = "select"
                /\ i = FrameStateRef
                /\ nodes[i].unexplored_buttons # <<>>
                /\ nodes'[i].unexplored_buttons
                     = Tail(nodes[i].unexplored_buttons)
     /\ \A i \in 1..Len(nodes'), k, l \in 1..MaxButtons :
          (/\ k <= Len(nodes'[i].unexplored_buttons)
           /\ l <= Len(nodes'[i].unexplored_buttons)
           /\ nodes'[i].unexplored_buttons[k] = nodes'[i].unexplored_buttons[l])
            => k = l
     /\ (pc = "select" /\ (pc' = "click" \/ skipped' # skipped))
          => /\ nodes[FrameStateRef].unexplored_buttons # <<>>
             /\ nodes'[FrameStateRef].unexplored_buttons
                  = Tail(nodes[FrameStateRef].unexplored_buttons)
             /\ pc' = "click"
                  => button' = Head(nodes[FrameStateRef].unexplored_buttons)
     /\ FramePushed # 0
          => /\ Len(stack') = Len(stack) + 1
             /\ \A k \in 1..Len(stack) : stack'[k] = stack[k] /\ stack[k] # FramePushed
             /\ \/ pc = "start" /\ stack = <<>>
                \/ Len(nodes') = Len(nodes) + 1 /\ FramePushed = Len(nodes')
     /\ (pc' = "start" => pc \in {"start", "open"})]_vars

\* a node with elements whose frame has returned with its queue drained is
\* reached again by a click in another frame
DrainedNodeReachedAgain ==
  /\ pc = "select"
  /\ stack # <<>>
  /\ current_state \in 1..Len(nodes)
  /\ \A k \in 1..Len(stack) : stack[k] # current_state
  /\ Len(buttons_of(nodes[current_state])) > 0
  /\ nodes[current_state].unexplored_buttons = <<>>
  /\ clicks_since_new_state > 0


\* C30: the State Graph only grows: no step removes or replaces a node,
\* removes an edge or changes the element it carries, or removes a dead
\* pair, and the home state, once set before the app opens, is never
\* replaced
GraphOnlyGrows ==
  [][/\ Len(nodes') >= Len(nodes)
     /\ \A i \in 1..Len(nodes) : nodes'[i].frame = nodes[i].frame
     /\ \A k \in DOMAIN edges :
          /\ k \in DOMAIN edges'
          /\ edges'[k].button = edges[k].button
          /\ edges'[k].traversal_count >= edges[k].traversal_count
     /\ dead_buttons \subseteq dead_buttons'
     /\ (home_state # NoneState => home_state' = home_state)]_vars

\* a finished run with a home state in which the graph gained nodes, an
\* edge and two dead pairs
GraphGrewDuringRun ==
  /\ pc = "done"
  /\ home_state # NoneState
  /\ Len(nodes) >= 3
  /\ DOMAIN edges # {}
  /\ Cardinality(dead_buttons) >= 2


\* the keys of edges whose edge the step created or changed
EdgesTouched ==
  {k \in DOMAIN edges' : k \notin DOMAIN edges \/ edges'[k] # edges[k]}

\* C31: add_edge creates or increments: a step that records a transition
\* touches the edge of one ordered pair of state ids; it creates it with
\* traversal_count 1 or adds 1 to the count of the edge the pair already
\* has, whose element stays the one of the first call; every edge has been
\* traversed at least once; and a reclassification after a click that
\* left a node with the clicked element for another node records one
EdgeCreatedOrIncremented ==
  [][/\ DOMAIN edges \subseteq DOMAIN edges'
     /\ Cardinality(EdgesTouched) <= 1
     /\ \A k \in EdgesTouched :
          IF k \in DOMAIN edges
          THEN /\ edges'[k].traversal_count = edges[k].traversal_count + 1
               /\ edges'[k].button = edges[k].button
          ELSE edges'[k].traversal_count = 1
     /\ \A k \in DOMAIN edges' : edges'[k].traversal_count >= 1
     /\ (/\ pc = "reclassify"
         /\ current_state' # current_state
         /\ current_state # NoneState
         /\ _find_button_by_id(nodes[current_state], button) # NoneButton)
          => EdgesTouched
               = {<<state_id_of(nodes[current_state]),
                    state_id_of(nodes'[current_state'])>>}]_vars

\* a transition between the same two state ids was recorded twice
EdgeTraversedTwice ==
  \E k \in DOMAIN edges : edges[k].traversal_count >= 2


\* the last ratio_learning_samples samples of one axis after the step
WindowAfter(axis) ==
  [k \in 1..Len(recent_samples(ratio_history')) |->
     recent_samples(ratio_history')[k][axis]]

\* C32: outside calibration, mouse_ratio changes only at the end of a
\* converged move whose history then holds at least min_ratio_samples
\* samples with both standard deviations of the most recent
\* ratio_learning_samples samples below 0.1; a failed move changes neither
\* mouse_ratio nor ratio_history; a converged move appends one sample, and
\* leaves mouse_ratio unchanged when the window is noisy
RatioLearnedOnlyWhenConsistent ==
  [][/\ (mouse_ratio' # mouse_ratio /\ ratio_op' # "calibrated")
          => /\ ratio_op' = "converged"
             /\ Len(ratio_history') = Len(ratio_history) + 1
             /\ Len(ratio_history') >= min_ratio_samples
             /\ RatiosConsistent(WindowAfter(1))
             /\ RatiosConsistent(WindowAfter(2))
     /\ (ratio_op' = "failed" /\ ratio_op # "failed")
          => /\ mouse_ratio' = mouse_ratio
             /\ ratio_history' = ratio_history
     /\ ratio_history' # ratio_history
          => /\ ratio_op' = "converged"
             /\ Len(ratio_history') = Len(ratio_history) + 1
             /\ SubSeq(ratio_history', 1, Len(ratio_history)) = ratio_history
             /\ (~(RatiosConsistent(WindowAfter(1))
                   /\ RatiosConsistent(WindowAfter(2)))
                   => mouse_ratio' = mouse_ratio)]_vars

\* the estimate was learned from a consistent window earlier in the run,
\* and the last converged move left a window that is noisy on one axis only
LearnedThenNoisyWindow ==
  /\ ratio_op = "converged"
  /\ Len(ratio_history) > min_ratio_samples
  /\ mouse_ratio[1] \notin {InitialRatio[1], 0}
  /\ RatiosConsistent([k \in 1..Len(recent_samples(ratio_history)) |->
                         recent_samples(ratio_history)[k][1]])
  /\ ~RatiosConsistent([k \in 1..Len(recent_samples(ratio_history)) |->
                          recent_samples(ratio_history)[k][2]])

\* C33: both components of mouse_ratio are strictly positive
RatioPositive == mouse_ratio[1] > 0 /\ mouse_ratio[2] > 0


\* C34: move_to_target reports every outcome as a PointerMoveResult and
\* never raises
MoveNeverRaises == mv_result # "raised"

\* C35: a launch failure is reported as a run failure.  Once the first
\* classification after open_app has yielded the home state and run() has
\* returned, run() returned False, the exit code is non-zero, and the batch
\* runner records a status that a resumed batch does not skip.
LaunchFailureReported ==
  (launch_error = "App failed to open" /\ run_result # "none")
    => /\ run_result = "False"
       /\ exit_code(run_result = "True") # 0
       /\ ~skipped_on_resume(result_status(run_result = "True"))

\* the square of the distance to the screen centre of element id of the
\* frame of node st
DistanceOf(st, id) == DistanceToCenterSq(Frames[st.frame][id + 1])

\* C36: the nearest-to-centre element is taken first.  Whenever the queue of
\* a node changes, its head was popped, the head was not farther from the
\* screen centre than any element still queued, the remaining queue is in
\* non-decreasing order of distance, and the popped element is either handed
\* to the click or, when dead, skipped with the engine back at the top of the
\* loop.
NearestElementFirst ==
  [][\A i \in 1..Len(nodes) :
       nodes'[i].unexplored_buttons # nodes[i].unexplored_buttons
         => LET q == nodes[i].unexplored_buttons
                b == Head(q)
            IN /\ q # <<>>
               /\ nodes'[i].unexplored_buttons = Tail(q)
               /\ \A j \in 1..Len(q) : DistanceOf(nodes[i], b) <= DistanceOf(nodes[i], q[j])
               /\ \A j, k \in 1..Len(q) :
                    j < k => DistanceOf(nodes[i], q[j]) <= DistanceOf(nodes[i], q[k])
               /\ \/ pc' = "click" /\ button' = b
                  \/ /\ pc' = "select"
                     /\ button' = NoneButton
                     /\ skipped' = <<state_id_of(nodes[i]), b>>
                     /\ is_dead_button(dead_buttons, state_id_of(nodes[i]), b)]_vars

\* the element the detector listed second is nearer to the centre and is the
\* one handed to the click, the first-listed one still waiting
NearerElementClickedFirst ==
  /\ pc = "click"
  /\ stack # <<>>
  /\ button = 1
  /\ nodes[FrameStateRef].unexplored_buttons = <<0>>
  /\ DistanceOf(nodes[FrameStateRef], 1) < DistanceOf(nodes[FrameStateRef], 0)

\* C37: the recording service runs at most one recording thread at any
\* time: in every state at most one record_stream is running.
AtMostOneRecordingThread == Cardinality(RunningRecordings) <= 1

=============================================================================
